---- MODULE Spec2Model ----
(***************************************************************************)
(* Model of the pybpod-api channel-layout resolver (Channels), the         *)
(* symbolic state machine (StateMachineBase.add_state) and its compiler    *)
(* (StateMachineBuilder).                                                  *)
(*                                                                         *)
(* Python values are modelled as follows.                                  *)
(*   - a list is a sequence; Python index k is sequence position k+1;      *)
(*   - float('NaN') is the value NaN, distinct from every state number;    *)
(*   - an action value is a tagged record: [t |-> "int", v |-> n],         *)
(*     [t |-> "str", v |-> <<"0","1">>], [t |-> "list", v |-> <<1,2,3>>]   *)
(*     or [t |-> "float", v |-> millivolts];                               *)
(*   - an exception leaves the object as mutated so far; the exception     *)
(*     of the last operation is recorded in last.err.                      *)
(***************************************************************************)
EXTENDS Integers, Sequences, FiniteSets, TLC

VARIABLES
    hardware,   \* the Hardware descriptor
    modules,    \* the list of UART modules handed to the resolver
    channels,   \* hardware.channels: the Channels object
    sma,        \* the StateMachineBuilder under construction
    pc,         \* "layout" | "building" | "compiled" | "failed"
    ncalls,     \* number of add_state calls made so far
    last,       \* the last operation: its arguments, its outcome, the machine before it
    hist,       \* the add_state calls made so far, each with its outcome
    out         \* what the last successful compilation returned

vars == <<hardware, modules, channels, sma, pc, ncalls, last, hist, out>>

(***************************************************************************)
(* Bounds of the model                                                     *)
(***************************************************************************)
MaxCalls == 3

(***************************************************************************)
(* Generic helpers                                                         *)
(***************************************************************************)
Range(s) == {s[i] : i \in DOMAIN s}

\* list.index(x): zero-based position of the first occurrence, -1 when absent
\* (the callers test membership first or catch the ValueError).
IndexOf(s, x) ==
    IF \E i \in DOMAIN s : s[i] = x
    THEN (CHOOSE i \in DOMAIN s : s[i] = x /\ \A j \in 1..(i-1) : s[j] # x) - 1
    ELSE -1

RepeatSeq(x, n) == [i \in 1..n |-> x]

RECURSIVE Pow2(_)
Pow2(n) == IF n <= 0 THEN 1 ELSE 2 * Pow2(n - 1)

(***************************************************************************)
(* Channels: the layout resolver                                           *)
(***************************************************************************)
EventsPositions ==
    [Event_USB |-> 0, Event_Port |-> 0, Event_BNC |-> 0, Event_Wire |-> 0,
     Event_Flex |-> 0, globalTimerStart |-> 0, globalTimerEnd |-> 0,
     globalTimerTrigger |-> 0, globalTimerCancel |-> 0, globalCounter |-> 0,
     globalCounterReset |-> 0, condition |-> 0, jump |-> 0, Tup |-> 0,
     output_USB |-> 0, output_VALVE |-> 0, output_BNC |-> 0, output_Wire |-> 0,
     output_PWM |-> 0, output_Flex |-> 0, analogThreshEnable |-> 0,
     analogThreshDisable |-> 0]

ChannelsInit ==
    [event_names |-> <<>>, input_channel_names |-> <<>>,
     output_channel_names |-> <<>>, events_positions |-> EventsPositions]

\* A variant that numbers the names from 0.
NumberedNames_FromZero(prefix, n, suffix) ==
    [k \in 1..n |-> prefix \o ToString(k - 1) \o suffix]

\* Names "<prefix><from+1><suffix>" ... "<prefix><to><suffix>"
NumberedNames(prefix, n, suffix) ==
    [k \in 1..n |-> prefix \o ToString(k) \o suffix]

\* The event names of one UART module (the inner loop over n_serial_events).
ModuleEventNames(module_name, module) ==
    [j \in 1..module.n_serial_events |->
        IF j <= Len(module.event_names)
        THEN module_name \o "_" \o module.event_names[j]
        ELSE module_name \o "_" \o ToString(j)]

ModuleName(module, nUART) ==
    IF module.connected THEN module.name ELSE "Serial" \o ToString(nUART)

\* One iteration of the loop over hardware.inputs.  w is the walker:
\* the Channels object c plus the local counters of the method.
InputStep(w, hw, mods, tag) ==
    LET c  == w.c
        ep == c.events_positions
    IN
    CASE tag = "U" ->
           LET nUART == w.nUART + 1
               module == mods[nUART]
               module_name == ModuleName(module, nUART)
           IN [w EXCEPT !.nUART = nUART,
                        !.c.input_channel_names = @ \o <<module_name>>,
                        !.c.event_names = @ \o ModuleEventNames(module_name, module),
                        !.Pos = @ + module.n_serial_events]
      [] tag = "X" ->
           LET loops_n == hw.max_serial_events \div (Len(mods) + 1)
           IN [w EXCEPT !.c.events_positions.Event_USB =
                            IF w.nUSB = 0 THEN w.Pos ELSE @,
                        !.nUSB = @ + 1,
                        !.c.input_channel_names = @ \o <<"USB" \o ToString(w.nUSB + 1)>>,
                        !.c.event_names = @ \o NumberedNames("SoftCode", loops_n, ""),
                        !.Pos = @ + loops_n]
      [] tag = "P" ->
           LET nm == "Port" \o ToString(w.nPorts + 1)
           IN [w EXCEPT !.c.events_positions.Event_Port =
                            IF w.nPorts = 0 THEN w.Pos ELSE @,
                        !.nPorts = @ + 1,
                        !.c.input_channel_names = @ \o <<nm>>,
                        !.c.event_names = @ \o <<nm \o "In", nm \o "Out">>,
                        !.Pos = @ + 2]
      [] tag = "B" ->
           LET nm == "BNC" \o ToString(w.nBNCs + 1)
           IN [w EXCEPT !.c.events_positions.Event_BNC =
                            IF w.nBNCs = 0 THEN w.Pos ELSE @,
                        !.nBNCs = @ + 1,
                        !.c.input_channel_names = @ \o <<nm>>,
                        !.c.event_names = @ \o <<nm \o "High", nm \o "Low">>,
                        !.Pos = @ + 2]
      [] tag = "W" ->
           LET nm == "Wire" \o ToString(w.nWires + 1)
           IN [w EXCEPT !.c.events_positions.Event_Wire =
                            IF w.nWires = 0 THEN w.Pos ELSE @,
                        !.nWires = @ + 1,
                        !.c.input_channel_names = @ \o <<nm>>,
                        !.c.event_names = @ \o <<nm \o "High", nm \o "Low">>,
                        !.Pos = @ + 2]
      [] tag = "F" ->
           LET nm == "Flex" \o ToString(w.nFlex + 1)
               ft == hw.flex_channel_types[w.nFlex + 1]
               w1 == [w EXCEPT !.c.events_positions.Event_Flex =
                                   IF w.nFlex = 0 THEN w.Pos ELSE @]
           IN
           IF ft = 0 THEN
               [w1 EXCEPT !.nFlex = @ + 1,
                          !.c.input_channel_names = @ \o <<nm>>,
                          !.c.event_names = @ \o <<nm \o "High", nm \o "Low">>,
                          !.Pos = @ + 2]
           ELSE IF ft = 2 THEN
               [w1 EXCEPT !.nFlex = @ + 1,
                          !.c.input_channel_names = @ \o <<nm>>,
                          !.c.event_names = @ \o <<nm \o "Trig1", nm \o "Trig2">>,
                          !.Pos = @ + 2]
           ELSE
               \* placeholders are appended, Pos is left as it is
               [w1 EXCEPT !.nFlex = @ + 1,
                          !.c.input_channel_names = @ \o <<"---">>,
                          !.c.event_names = @ \o <<"---", "---">>]
      [] OTHER -> w

\* A variant in which a new object shares the lists and positions of the
\* existing one.
NewChannels_Shared(existing) == existing

\* Channels(): the constructor binds new empty lists and a new
\* EventsPositions to the object, whatever objects exist already
NewChannels(existing) == ChannelsInit

RECURSIVE InputWalk(_, _, _, _)
InputWalk(w, hw, mods, i) ==
    IF i > Len(hw.inputs) THEN w
    ELSE InputWalk(InputStep(w, hw, mods, hw.inputs[i]), hw, mods, i + 1)

setup_input_channels(c, hw, mods) ==
    LET w0 == [c |-> c, Pos |-> 0, nUSB |-> 0, nUART |-> 0, nBNCs |-> 0,
               nWires |-> 0, nPorts |-> 0, nFlex |-> 0]
        w  == InputWalk(w0, hw, mods, 1)
        nT == hw.n_global_timers
        nC == hw.n_global_counters
        nK == hw.n_conditions
        pStart == w.Pos
        pEnd   == pStart + nT
        pCnt   == pEnd + nT
        pCond  == pCnt + nC
        pTup   == pCond + nK
    IN [w.c EXCEPT
          !.event_names = @ \o NumberedNames("GlobalTimer", nT, "_Start")
                            \o NumberedNames("GlobalTimer", nT, "_End")
                            \o NumberedNames("GlobalCounter", nC, "_End")
                            \o NumberedNames("Condition", nK, "")
                            \o <<"Tup">>,
          !.input_channel_names = @ \o NumberedNames("GlobalTimer", nT, ""),
          !.events_positions.globalTimerStart = pStart,
          !.events_positions.globalTimerEnd = pEnd,
          !.events_positions.globalCounter = pCnt,
          !.events_positions.condition = pCond,
          !.events_positions.Tup = pTup]

\* One iteration of the loop over hardware.outputs.
OutputStep(w, hw, mods, tag) ==
    LET n == Len(w.c.output_channel_names)
    IN
    CASE tag = "U" ->
           [w EXCEPT !.nUART = @ + 1,
                     !.c.output_channel_names =
                         @ \o <<ModuleName(mods[w.nUART + 1], w.nUART + 1)>>]
      [] tag = "X" ->
           [w EXCEPT !.c.events_positions.output_USB = IF w.nUSB = 0 THEN n ELSE @,
                     !.nUSB = @ + 1,
                     !.c.output_channel_names = @ \o <<"SoftCode">>]
      [] tag = "V" ->
           [w EXCEPT !.c.events_positions.output_VALVE = IF w.nVALVE = 0 THEN n ELSE @,
                     !.nVALVE = @ + 1,
                     !.c.output_channel_names = @ \o <<"Valve" \o ToString(w.nVALVE + 1)>>]
      [] tag = "B" ->
           [w EXCEPT !.c.events_positions.output_BNC = IF w.nBNCs = 0 THEN n ELSE @,
                     !.nBNCs = @ + 1,
                     !.c.output_channel_names = @ \o <<"BNC" \o ToString(w.nBNCs + 1)>>]
      [] tag = "W" ->
           [w EXCEPT !.c.events_positions.output_Wire = IF w.nWires = 0 THEN n ELSE @,
                     !.nWires = @ + 1,
                     !.c.output_channel_names = @ \o <<"Wire" \o ToString(w.nWires + 1)>>]
      [] tag = "P" ->
           [w EXCEPT !.c.events_positions.output_PWM = IF w.nPorts = 0 THEN n ELSE @,
                     !.nPorts = @ + 1,
                     !.c.output_channel_names = @ \o <<"PWM" \o ToString(w.nPorts + 1)>>]
      [] tag = "F" ->
           LET ft == hw.flex_channel_types[w.nFlex + 1]
               w1 == [w EXCEPT !.c.events_positions.output_Flex =
                                   IF w.nFlex = 0 THEN n ELSE @,
                               !.nFlex = @ + 1]
               nm == "Flex" \o ToString(w.nFlex + 1)
           IN
           IF ft = 1 THEN [w1 EXCEPT !.c.output_channel_names = @ \o <<nm \o "DO">>]
           ELSE IF ft = 3 THEN [w1 EXCEPT !.c.output_channel_names = @ \o <<nm \o "AO">>]
           ELSE [w1 EXCEPT !.c.output_channel_names = @ \o <<"---">>]
      [] OTHER -> w

\* A variant that appends no placeholder for a flex channel that is
\* not an output.
RECURSIVE OutputWalk_NoPlaceholder(_, _, _, _)
OutputWalk_NoPlaceholder(w, hw, mods, i) ==
    IF i > Len(hw.outputs) THEN w
    ELSE OutputWalk_NoPlaceholder(
             IF hw.outputs[i] = "F" /\ hw.flex_channel_types[w.nFlex + 1] \notin {1, 3}
             THEN [w EXCEPT !.nFlex = @ + 1]
             ELSE OutputStep(w, hw, mods, hw.outputs[i]),
             hw, mods, i + 1)

RECURSIVE OutputWalk(_, _, _, _)
OutputWalk(w, hw, mods, i) ==
    IF i > Len(hw.outputs) THEN w
    ELSE OutputWalk(OutputStep(w, hw, mods, hw.outputs[i]), hw, mods, i + 1)

setup_output_channels(c, hw, mods) ==
    LET w0 == [c |-> c, nUSB |-> 0, nUART |-> 0, nVALVE |-> 0, nBNCs |-> 0,
               nWires |-> 0, nPorts |-> 0, nFlex |-> 0]
        w  == OutputWalk(w0, hw, mods, 1)
        n  == Len(w.c.output_channel_names)
        c1 == [w.c EXCEPT
                 !.output_channel_names =
                     @ \o <<"GlobalTimerTrig", "GlobalTimerCancel", "GlobalCounterReset">>,
                 !.events_positions.globalTimerTrigger = n,
                 !.events_positions.globalTimerCancel = n + 1,
                 !.events_positions.globalCounterReset = n + 2]
    IN IF hw.machine_type > 3
       THEN [c1 EXCEPT
               !.output_channel_names = @ \o <<"AnalogThreshEnable", "AnalogThreshDisable">>,
               !.events_positions.analogThreshEnable = n + 3,
               !.events_positions.analogThreshDisable = n + 4]
       ELSE c1

(***************************************************************************)
(* Hardware descriptor                                                     *)
(***************************************************************************)
CountTag(tags, tag) == Cardinality({i \in DOMAIN tags : tags[i] = tag})

\* The descriptor as Hardware.set_up completes it: three 'G' slots are
\* appended to the outputs and the UART channels are counted.  d gives
\* the fields read from the device.
\* Hardware.DEFAULT_FREQUENCY_DIVIDER
DEFAULT_FREQUENCY_DIVIDER == 1000000

Hardware(d) ==
    [machine_type |-> d.machine_type,
     firmware_version |-> d.firmware_version,
     max_states |-> d.max_states,
     max_serial_events |-> d.max_serial_events,
     n_global_timers |-> d.n_global_timers,
     n_global_counters |-> d.n_global_counters,
     n_conditions |-> d.n_conditions,
     inputs |-> d.inputs,
     outputs |-> d.outputs \o <<"G", "G", "G">>,
     n_uart_channels |-> CountTag(d.inputs, "U"),
     flex_channel_types |-> d.flex_channel_types,
     n_flex_channels |-> Len(d.flex_channel_types),
     serial_message_max_bytes |-> IF d.machine_type > 3 THEN 5 ELSE 3,
     cycle_period |-> d.cycle_period,
     cycle_frequency |-> DEFAULT_FREQUENCY_DIVIDER \div d.cycle_period]

\* A UART module that is not connected: it contributes "Serial{n}" names.
Module(n_serial_events) ==
    [connected |-> FALSE, name |-> "", event_names |-> <<>>,
     n_serial_events |-> n_serial_events]

(***************************************************************************)
(* Python values                                                           *)
(***************************************************************************)
\* float('NaN'), the destination of an 'exit' transition
NaN == -1

PyInt(n)    == [t |-> "int",   v |-> n]
PyFloat(mv) == [t |-> "float", v |-> mv]   \* v in millivolts (1/1000)
PyStr(cs)   == [t |-> "str",   v |-> cs]   \* v the sequence of characters
PyList(xs)  == [t |-> "list",  v |-> xs]   \* v a sequence of integers

\* str(x) for an integer list: "[1, 2, 3]"
RECURSIVE JoinInts(_, _)
JoinInts(xs, sep) ==
    IF xs = <<>> THEN ""
    ELSE IF Len(xs) = 1 THEN ToString(xs[1])
    ELSE ToString(xs[1]) \o sep \o JoinInts(Tail(xs), sep)

str_list(xs) == "[" \o JoinInts(xs, ", ") \o "]"

\* str.strip of the blanks at the two ends
RECURSIVE LStrip(_)
LStrip(cs) == IF cs # <<>> /\ Head(cs) = " " THEN LStrip(Tail(cs)) ELSE cs

RECURSIVE RStrip(_)
RStrip(cs) ==
    IF cs # <<>> /\ cs[Len(cs)] = " " THEN RStrip(SubSeq(cs, 1, Len(cs) - 1)) ELSE cs

\* the literal without its sign
Unsigned(cs) == IF cs # <<>> /\ Head(cs) \in {"+", "-"} THEN Tail(cs) ELSE cs

\* the literal without the base prefix 0b / 0B and the one underscore that
\* may follow it
Unprefixed(cs) ==
    IF Len(cs) >= 2 /\ cs[1] = "0" /\ cs[2] \in {"b", "B"}
    THEN LET rest == SubSeq(cs, 3, Len(cs))
         IN IF rest # <<>> /\ Head(rest) = "_" THEN Tail(rest) ELSE rest
    ELSE cs

\* binary digits, single underscores between them only
DigitsOk(cs) ==
    /\ cs # <<>>
    /\ cs[1] \in {"0", "1"} /\ cs[Len(cs)] \in {"0", "1"}
    /\ \A i \in DOMAIN cs : cs[i] \in {"0", "1", "_"}
    /\ \A i \in 1..(Len(cs) - 1) : ~(cs[i] = "_" /\ cs[i + 1] = "_")

RECURSIVE DigitsValue(_, _)
DigitsValue(cs, acc) ==
    IF cs = <<>> THEN acc
    ELSE DigitsValue(Tail(cs), IF Head(cs) = "_" THEN acc
                               ELSE 2 * acc + (IF Head(cs) = "1" THEN 1 ELSE 0))

\* int(s, base=2) for a sequence of characters: blanks at the ends, a sign,
\* the prefix 0b and underscores between digits are accepted; ok is FALSE
\* where Python raises ValueError
int_base2(cs) ==
    LET lit  == RStrip(LStrip(cs))
        body == Unprefixed(Unsigned(lit))
    IN IF DigitsOk(body)
       THEN [ok |-> TRUE,
             v |-> (IF lit[1] = "-" THEN -1 ELSE 1) * DigitsValue(body, 0)]
       ELSE [ok |-> FALSE, v |-> 0]

\* str(x) for an integer, as its characters
RECURSIVE StrOfNat(_)
StrOfNat(n) ==
    IF n < 10 THEN <<ToString(n)>> ELSE Append(StrOfNat(n \div 10), ToString(n % 10))

StrOfInt(x) == IF x < 0 THEN <<"-">> \o StrOfNat(-x) ELSE StrOfNat(x)

\* "".join(str(x) for x in xs) for a list of integers, as its characters
RECURSIVE DigitChars(_)
DigitChars(xs) ==
    IF xs = <<>> THEN <<>> ELSE StrOfInt(Head(xs)) \o DigitChars(Tail(xs))

\* A variant that cuts the fraction off instead of rounding.
RoundHalfEven_Floor(num, den) == num \div den

\* round(x) of the rational num/den (den > 0, num >= 0): half to even
RoundHalfEven(num, den) ==
    LET q == num \div den
        r == num % den
    IN IF 2 * r > den THEN q + 1
       ELSE IF 2 * r < den THEN q
       ELSE IF q % 2 = 0 THEN q ELSE q + 1

\* a dict update d[k] = v
DictSet(d, k, v) == [x \in (DOMAIN d) \cup {k} |-> IF x = k THEN v ELSE d[x]]

\* list[k] = v with Python's index rules; the list is returned unchanged
\* when k is out of range (the caller raises IndexError, see InRange)
InRange(xs, k) == k < Len(xs) /\ k >= -Len(xs)
PyIndex(xs, k) == IF k >= 0 THEN k + 1 ELSE Len(xs) + k + 1
ListSet(xs, k, v) == IF InRange(xs, k) THEN [xs EXCEPT ![PyIndex(xs, k)] = v] ELSE xs

(***************************************************************************)
(* StateMachineBase                                                        *)
(***************************************************************************)
\* Forward references are stored as UndeclaredBase + index in undeclared.
UndeclaredBase == 10000

\* The destination code of a 'back' transition.
BackCode == 255

\* Conditions, GlobalCounters and GlobalTimers: the per-state matrices
\* the state machine reads and writes.
Conditions(max_states, n_conditions) ==
    [matrix |-> RepeatSeq(<<>>, max_states)]

GlobalCounters(max_states, n_global_counters) ==
    [matrix |-> RepeatSeq(<<>>, max_states),
     reset_matrix |-> RepeatSeq(0, max_states),
     attached_events |-> RepeatSeq(255, n_global_counters),
     thresholds |-> RepeatSeq(0, n_global_counters)]

GlobalTimers(max_states, n_global_timers) ==
    [start_matrix |-> RepeatSeq(<<>>, max_states),
     end_matrix |-> RepeatSeq(<<>>, max_states),
     triggers_matrix |-> RepeatSeq(0, max_states),
     cancels_matrix |-> RepeatSeq(0, max_states),
     onset_matrix |-> RepeatSeq(0, n_global_timers),
     timers |-> RepeatSeq(0, n_global_timers),
     on_set_delays |-> RepeatSeq(0, n_global_timers),
     channels |-> RepeatSeq(255, n_global_timers),
     on_messages |-> RepeatSeq(0, n_global_timers),
     off_messages |-> RepeatSeq(0, n_global_timers),
     loop_mode |-> RepeatSeq(0, n_global_timers),
     loop_intervals |-> RepeatSeq(0, n_global_timers),
     send_events |-> RepeatSeq(0, n_global_timers)]

\* [{}] * n_uart_channels: a list of n references to ONE dict object.
\* ref[ch] names the object channel ch refers to, heap[o] is object o;
\* a dict holds its str keys (by_str) and its int keys (by_idx).
EmptyDict == [by_str |-> <<>>, by_idx |-> <<>>]

SerialMessagesInit(n_uart_channels) ==
    [ref |-> RepeatSeq(1, n_uart_channels), heap |-> <<EmptyDict>>]

\* self.serial_messages[ch] (ch zero-based)
SerialDict(s, ch) == s.serial_messages.heap[s.serial_messages.ref[ch + 1]]

StateMachineInit(hw) ==
    [state_names |-> <<>>,
     state_timers |-> RepeatSeq(0, hw.max_states),
     total_states_added |-> 0,
     state_timer_matrix |-> RepeatSeq(0, hw.max_states),
     conditions |-> Conditions(hw.max_states, hw.n_conditions),
     global_counters |-> GlobalCounters(hw.max_states, hw.n_global_counters),
     global_timers |-> GlobalTimers(hw.max_states, hw.n_global_timers),
     input_matrix |-> RepeatSeq(<<>>, hw.max_states),
     use_255_back_signal |-> FALSE,
     manifest |-> <<>>,
     undeclared |-> <<>>,
     output_matrix |-> RepeatSeq(<<>>, hw.max_states),
     serial_message_mode |-> 0,
     n_serial_messages |-> RepeatSeq(0, hw.n_uart_channels),
     serial_messages |-> SerialMessagesInit(hw.n_uart_channels)]

\* EventName: the classification of an event name by its kind.
is_state_timer(name) == name = "Tup"
is_condition(hw, name) == name \in Range(NumberedNames("Condition", hw.n_conditions, ""))
is_global_counter_end(hw, name) ==
    name \in Range(NumberedNames("GlobalCounter", hw.n_global_counters, "_End"))
is_global_timer_end(hw, name) ==
    name \in Range(NumberedNames("GlobalTimer", hw.n_global_timers, "_End"))
is_global_timer_start(hw, name) ==
    name \in Range(NumberedNames("GlobalTimer", hw.n_global_timers, "_Start"))

\* An operation in progress: the object so far and the exception raised.
Ok(s) == [s |-> s, err |-> "none"]
Raise(s, e) == [s |-> s, err |-> e]

\* lines 130-140: the slot of the state, new or re-declared
DeclareState(s, state_name, state_timer) ==
    LET known == state_name \in Range(s.manifest)
        state_name_idx == IF known THEN IndexOf(s.manifest, state_name)
                          ELSE Len(s.manifest)
        s1 == IF known
              THEN [s EXCEPT !.state_names[state_name_idx + 1] = state_name]
              ELSE [s EXCEPT !.state_names = Append(@, state_name),
                             !.manifest = Append(@, state_name)]
    IN IF state_name_idx >= Len(s1.state_timer_matrix)
       THEN Raise(s1, "IndexError")
       ELSE Ok([s1 EXCEPT !.state_timer_matrix[state_name_idx + 1] = state_name_idx,
                          !.state_timers[state_name_idx + 1] = state_timer])

StateNameIdx(s, state_name) == IndexOf(s.manifest, state_name)

\* lines 142-211: one (event_name, event_state_transition) item
AddTransition(r, hw, c, i, event_name, event_state_transition) ==
    IF r.err # "none" THEN r
    ELSE
    LET s == r.s
        event_code == IndexOf(c.event_names, event_name)
        declared == event_state_transition \in Range(s.manifest)
        isExit == event_state_transition \in {"exit", ">exit"}
        isBack == event_state_transition \in {"back", ">back"}
        destination_state_number ==
            IF declared THEN IndexOf(s.manifest, event_state_transition)
            ELSE IF isExit THEN NaN
            ELSE IF isBack THEN BackCode
            ELSE Len(s.undeclared) + UndeclaredBase
        s1 == IF declared \/ isExit THEN s
              ELSE IF isBack THEN [s EXCEPT !.use_255_back_signal = TRUE]
              ELSE [s EXCEPT !.undeclared = Append(@, event_state_transition)]
        tr == <<event_code, destination_state_number>>
    IN
    IF event_code < 0 THEN Raise(s, "SMAError")
    ELSE IF is_state_timer(event_name)
         THEN Ok([s1 EXCEPT !.state_timer_matrix[i + 1] = destination_state_number])
    ELSE IF is_condition(hw, event_name)
         THEN Ok([s1 EXCEPT !.conditions.matrix[i + 1] = Append(@, tr)])
    ELSE IF is_global_counter_end(hw, event_name)
         THEN Ok([s1 EXCEPT !.global_counters.matrix[i + 1] = Append(@, tr)])
    ELSE IF is_global_timer_end(hw, event_name)
         THEN Ok([s1 EXCEPT !.global_timers.end_matrix[i + 1] = Append(@, tr)])
    ELSE IF is_global_timer_start(hw, event_name)
         THEN Ok([s1 EXCEPT !.global_timers.start_matrix[i + 1] = Append(@, tr)])
    ELSE Ok([s1 EXCEPT !.input_matrix[i + 1] = Append(@, tr)])

RECURSIVE AddTransitions(_, _, _, _, _, _)
AddTransitions(r, hw, c, i, state_change_conditions, k) ==
    IF k > Len(state_change_conditions) THEN r
    ELSE AddTransitions(
             AddTransition(r, hw, c, i, state_change_conditions[k][1],
                           state_change_conditions[k][2]),
             hw, c, i, state_change_conditions, k + 1)

\* The frame of one iteration of the loop over output_actions:
\* the object, the exception, output_code and output_value.
Frame(s, err, output_code, output_value) ==
    [s |-> s, err |-> err, output_code |-> output_code, output_value |-> output_value]

\* str(action_value) appended to a channel prefix
ValueSuffix(action_value) ==
    IF action_value.t = "int" THEN ToString(action_value.v) ELSE "?"

\* lines 214-244: output_code and output_value of the action
ResolveAction(s, c, action_name, action_value) ==
    LET names == c.output_channel_names
    IN
    IF action_name = "Valve" THEN
        LET code == IndexOf(names, "Valve" \o ValueSuffix(action_value))
        IN IF code < 0 THEN Frame(s, "ValueError", code, PyInt(1))
           ELSE Frame(s, "none", code, PyInt(1))
    ELSE IF action_name = "LED" THEN
        LET code == IndexOf(names, "PWM" \o ValueSuffix(action_value))
        IN IF code < 0 THEN Frame(s, "ValueError", code, PyInt(255))
           ELSE Frame(s, "none", code, PyInt(255))
    ELSE
        LET code == IndexOf(names, action_name)
        IN IF code < 0 THEN Frame(s, "SMAError", code, action_value)
           ELSE Frame(s, "none", code, action_value)

\* lines 246-247
CounterResetStep(f, action_name) ==
    IF f.err # "none" \/ action_name # "GlobalCounterReset" THEN f
    ELSE IF f.output_value.t # "int" THEN [f EXCEPT !.err = "TypeError"]
    ELSE IF ~InRange(f.s.global_counters.reset_matrix, f.output_value.v)
         THEN [f EXCEPT !.err = "IndexError"]
    ELSE [f EXCEPT !.s.global_counters.reset_matrix = ListSet(@, f.output_value.v, 1)]

\* lines 251-252: 2 ** (output_value - 1). A str or a list has no '-' with
\* an int (TypeError); an int below 1 or a float gives the float
\* 2 ** (exp2 / 1000), kept as its exponent in thousandths.
TimerTrigStep(f, c, i) ==
    IF f.err # "none" \/ f.output_code # c.events_positions.globalTimerTrigger THEN f
    ELSE IF f.output_value.t \in {"str", "list"} THEN [f EXCEPT !.err = "TypeError"]
    ELSE IF f.output_value.t = "int" /\ f.output_value.v >= 1
         THEN [f EXCEPT !.s.global_timers.triggers_matrix[i + 1] = Pow2(f.output_value.v - 1)]
    ELSE IF f.output_value.t = "int"
         THEN [f EXCEPT !.s.global_timers.triggers_matrix[i + 1] =
                            [t |-> "float", exp2 |-> 1000 * (f.output_value.v - 1)]]
    ELSE [f EXCEPT !.s.global_timers.triggers_matrix[i + 1] =
                       [t |-> "float", exp2 |-> f.output_value.v - 1000]]

\* lines 254-255
TimerCancelStep(f, c) ==
    IF f.err # "none" \/ f.output_code # c.events_positions.globalTimerCancel THEN f
    ELSE IF f.output_value.t # "int" THEN [f EXCEPT !.err = "TypeError"]
    ELSE IF ~InRange(f.s.global_timers.cancels_matrix, f.output_value.v - 1)
         THEN [f EXCEPT !.err = "IndexError"]
    ELSE [f EXCEPT !.s.global_timers.cancels_matrix = ListSet(@, f.output_value.v - 1, 1)]

maxFlexVoltage == 5

\* lines 257-265
FlexStep(f, hw, c, action_value) ==
    LET ep == c.events_positions
        flex_channel == f.output_code - ep.output_Flex
        mv == IF action_value.t = "int" THEN 1000 * action_value.v ELSE action_value.v
    IN
    IF f.err # "none" THEN f
    ELSE IF ~(f.output_code >= ep.output_Flex /\ f.output_code < ep.output_BNC) THEN f
    ELSE IF flex_channel >= Len(hw.flex_channel_types) THEN [f EXCEPT !.err = "IndexError"]
    ELSE IF hw.flex_channel_types[flex_channel + 1] # 3 THEN f
    ELSE IF action_value.t \notin {"int", "float"} THEN [f EXCEPT !.err = "TypeError"]
    ELSE IF mv < 0 \/ mv > 1000 * maxFlexVoltage THEN [f EXCEPT !.err = "SMAError"]
    ELSE [f EXCEPT !.output_value = PyInt(RoundHalfEven(mv * 4095, 1000 * maxFlexVoltage))]

\* lines 267-290
AnalogThreshStep(f, hw, c, action_value) ==
    LET ep == c.events_positions
        bits == IF action_value.t = "list" THEN DigitChars(action_value.v)
                ELSE action_value.v
    IN
    IF f.err # "none" THEN f
    ELSE IF ~(f.output_code = ep.analogThreshEnable
              \/ f.output_code = ep.analogThreshDisable) THEN f
    ELSE IF action_value.t \in {"list", "str"}
            /\ Len(action_value.v) = hw.n_flex_channels
         THEN IF ~int_base2(bits).ok THEN [f EXCEPT !.err = "SMAError"]
              ELSE [f EXCEPT !.output_value = PyInt(int_base2(bits).v)]
    ELSE [f EXCEPT !.err = "SMAError"]

\* At most this many messages per UART channel.
MaxSerialMessages == 256

\* lines 292-322
SerialMessageStep(f, hw, c, action_value) ==
    LET ch  == f.output_code
        key == str_list(action_value.v)
        s1  == [f.s EXCEPT !.serial_message_mode = 1]
        o   == s1.serial_messages.ref[ch + 1]
        d   == s1.serial_messages.heap[o]
        msg_index == s1.n_serial_messages[ch + 1]
    IN
    IF f.err # "none" THEN f
    ELSE IF ~(f.output_code < c.events_positions.output_USB) THEN f
    ELSE IF action_value.t # "list" THEN f
    ELSE IF Len(action_value.v) = 0 \/ Len(action_value.v) > hw.serial_message_max_bytes
         THEN [f EXCEPT !.err = "SMAError"]
    ELSE IF ch >= Len(s1.serial_messages.ref) THEN [f EXCEPT !.s = s1, !.err = "IndexError"]
    ELSE IF key \notin DOMAIN d.by_str THEN
         IF msg_index < MaxSerialMessages THEN
             [f EXCEPT
                !.s = [s1 EXCEPT
                         !.serial_messages.heap[o].by_str = DictSet(@, key, msg_index),
                         !.serial_messages.heap[o].by_idx = DictSet(@, msg_index, action_value.v),
                         !.n_serial_messages[ch + 1] = @ + 1],
                !.output_value = PyInt(msg_index)]
         ELSE [f EXCEPT !.s = s1, !.err = "SMAError"]
    ELSE [f EXCEPT !.s = s1, !.output_value = PyInt(d.by_str[key])]

\* line 325
AppendOutput(f, i) ==
    IF f.err # "none" THEN f
    ELSE [f EXCEPT !.s.output_matrix[i + 1] = Append(@, <<f.output_code, f.output_value>>)]

\* lines 213-325: one (action_name, action_value) item
AddAction(r, hw, c, i, action_name, action_value) ==
    IF r.err # "none" THEN r
    ELSE
    LET f0 == ResolveAction(r.s, c, action_name, action_value)
        f1 == CounterResetStep(f0, action_name)
        f2 == TimerTrigStep(f1, c, i)
        f3 == TimerCancelStep(f2, c)
        f4 == FlexStep(f3, hw, c, action_value)
        f5 == AnalogThreshStep(f4, hw, c, action_value)
        f6 == SerialMessageStep(f5, hw, c, action_value)
        f7 == AppendOutput(f6, i)
    IN [s |-> f7.s, err |-> f7.err]

RECURSIVE AddActions(_, _, _, _, _, _)
AddActions(r, hw, c, i, output_actions, k) ==
    IF k > Len(output_actions) THEN r
    ELSE AddActions(
             AddAction(r, hw, c, i, output_actions[k][1], output_actions[k][2]),
             hw, c, i, output_actions, k + 1)

\* line 327
CountState(r) ==
    IF r.err # "none" THEN r
    ELSE [r EXCEPT !.s.total_states_added = @ + 1]

\* StateMachineBase.add_state: the object after the call and the exception
add_state(s, hw, c, state_name, state_timer, state_change_conditions, output_actions) ==
    LET r0 == DeclareState(s, state_name, state_timer)
        i  == StateNameIdx(r0.s, state_name)
        r1 == AddTransitions(r0, hw, c, i, state_change_conditions, 1)
        r2 == AddActions(r1, hw, c, i, output_actions, 1)
    IN CountState(r2)

(***************************************************************************)
(* StateMachineBuilder                                                     *)
(***************************************************************************)
\* A variant that compares the event code, not the destination, with the
\* sentinel: no forward reference of a transition list is ever rewritten.
ReplaceInList_EventCode(inputTransitions, undeclaredStateNumber, thisStateNumber) ==
    [k \in DOMAIN inputTransitions |->
        IF inputTransitions[k][1] = undeclaredStateNumber
        THEN <<inputTransitions[k][1], thisStateNumber>>
        ELSE inputTransitions[k]]

\* inputTransitions[k] = (thisTransition[0], thisStateNumber) where the
\* destination is the sentinel
ReplaceInList(inputTransitions, undeclaredStateNumber, thisStateNumber) ==
    [k \in DOMAIN inputTransitions |->
        IF inputTransitions[k][2] = undeclaredStateNumber
        THEN <<inputTransitions[k][1], thisStateNumber>>
        ELSE inputTransitions[k]]

\* the same for the rows j < total_states_added of a matrix
ReplaceInMatrix(matrix, n, undeclaredStateNumber, thisStateNumber) ==
    [j \in DOMAIN matrix |->
        IF j <= n
        THEN ReplaceInList(matrix[j], undeclaredStateNumber, thisStateNumber)
        ELSE matrix[j]]

\* lines 27-71: the body of the loop for undeclared[i] (i zero-based)
ResolveUndeclared(s, i) ==
    LET undeclaredStateNumber == i + UndeclaredBase
        thisStateNumber == IndexOf(s.manifest, s.undeclared[i + 1])
        n == s.total_states_added
    IN [s EXCEPT
          !.state_timer_matrix =
              [j \in DOMAIN @ |->
                  IF j <= n /\ @[j] = undeclaredStateNumber
                  THEN thisStateNumber ELSE @[j]],
          !.input_matrix = ReplaceInMatrix(@, n, undeclaredStateNumber, thisStateNumber),
          !.global_timers.start_matrix =
              ReplaceInMatrix(@, n, undeclaredStateNumber, thisStateNumber),
          !.global_timers.end_matrix =
              ReplaceInMatrix(@, n, undeclaredStateNumber, thisStateNumber),
          !.global_counters.matrix =
              ReplaceInMatrix(@, n, undeclaredStateNumber, thisStateNumber),
          !.conditions.matrix =
              ReplaceInMatrix(@, n, undeclaredStateNumber, thisStateNumber)]

RECURSIVE ResolveAll(_, _)
ResolveAll(r, i) ==
    IF r.err # "none" \/ i >= Len(r.s.undeclared) THEN r
    ELSE IF r.s.undeclared[i + 1] \notin Range(r.s.manifest)
         THEN Raise(r.s, "ValueError")
    ELSE IF r.s.total_states_added > Len(r.s.state_timer_matrix)
         THEN Raise(r.s, "IndexError")
    ELSE ResolveAll(Ok(ResolveUndeclared(r.s, i)), i + 1)

\* StateMachineBuilder.update_state_numbers
update_state_numbers(s) ==
    LET r == ResolveAll(Ok(s), 0)
    IN IF r.err # "none" THEN r
       ELSE IF Len(r.s.manifest) > r.s.total_states_added
            THEN Raise(r.s, "StateMachineBuilderError")
       ELSE r

\* lines 383-385: the on-set matrix is padded up to the timer's index
PadOnset(onset_matrix, index) ==
    IF Len(onset_matrix) < index
    THEN onset_matrix \o RepeatSeq(0, index + 1 - Len(onset_matrix))
    ELSE onset_matrix

\* StateMachineBase.set_global_timer(timer_id, timer_duration, on_set_delay,
\* loop_intervals=...), the other arguments at their defaults (channel None,
\* on_message 1, off_message 0, loop_mode 0, send_events 1, no on-set
\* triggers). The first assignment raises when the index is out of range.
set_global_timer(s, timer_id, timer_duration, on_set_delay, loop_intervals) ==
    LET index == timer_id - 1
        g == s.global_timers
    IN IF ~InRange(g.timers, index) THEN Raise(s, "IndexError")
       ELSE Ok([s EXCEPT !.global_timers =
                   [g EXCEPT !.timers = ListSet(@, index, timer_duration),
                             !.on_set_delays = ListSet(@, index, on_set_delay),
                             !.channels = ListSet(@, index, 255),
                             !.on_messages = ListSet(@, index, 1),
                             !.off_messages = ListSet(@, index, 0),
                             !.loop_mode = ListSet(@, index, 0),
                             !.loop_intervals = ListSet(@, index, loop_intervals),
                             !.send_events = ListSet(@, index, 1),
                             !.onset_matrix = PadOnset(@, index)]])

\* StateMachineBase.set_global_counter
set_global_counter(s, c, counter_number, target_event, threshold) ==
    LET event_code == IndexOf(c.event_names, target_event)
        g == s.global_counters
    IN IF event_code < 0 THEN Raise(s, "ValueError")
       ELSE IF ~InRange(g.attached_events, counter_number - 1)
            THEN Raise(s, "IndexError")
       ELSE Ok([s EXCEPT !.global_counters =
                   [g EXCEPT !.attached_events =
                                 ListSet(@, counter_number - 1, event_code),
                             !.thresholds =
                                 ListSet(@, counter_number - 1, threshold)]])

\* get_max_index_used() of GlobalTimers and GlobalCounters, followed by
\* lines 103-112: one more than the highest index in use, 0 when none is.
\* A timer is in use when its duration is set, a counter when its
\* threshold is.
HighestUsed(xs) ==
    LET used == {k \in 1..Len(xs) : xs[k] # 0}
    IN IF used = {} THEN 0 ELSE CHOOSE k \in used : \A j \in used : j <= k

highest_used_global_timer(s) == HighestUsed(s.global_timers.timers)

highest_used_global_counter(s) == HighestUsed(s.global_counters.thresholds)

\* little-endian uint16 of one number
Uint16(n) == <<n % 256, (n \div 256) % 256>>

\* ord(SendMessageHeader.NEW_STATE_MATRIX), the character 'C'
NEW_STATE_MATRIX == 67

\* StateMachineBuilder.build_header; run_asap is "None", "False" or "True"
build_header(s, run_asap, statemachine_body_size) ==
    <<NEW_STATE_MATRIX>>
    \o <<IF run_asap = "None" THEN 0 ELSE 1>>
    \o <<IF s.use_255_back_signal THEN 1 ELSE 0>>
    \o Uint16(statemachine_body_size)

\* A variant that encodes 'exit' as the number of names in the manifest.
DestState_Manifest(s, dest_state) ==
    IF dest_state = NaN THEN Len(s.manifest) ELSE dest_state

\* total_states_added if math.isnan(dest_state) else dest_state
DestState(s, dest_state) ==
    IF dest_state = NaN THEN s.total_states_added ELSE dest_state

\* lines 128-134: tmp of the STATE TIMER MATRIX
StateTimerSection(s) ==
    [i \in 1..s.total_states_added |-> DestState(s, s.state_timer_matrix[i])]

RECURSIVE FlattenTransitions(_, _, _)
FlattenTransitions(s, state_transitions, base) ==
    IF state_transitions = <<>> THEN <<>>
    ELSE <<Head(state_transitions)[1] - base,
           DestState(s, Head(state_transitions)[2])>>
         \o FlattenTransitions(s, Tail(state_transitions), base)

\* tmp of a transition matrix: per state the count, then (code - base, dest)
RECURSIVE TransitionSection(_, _, _, _)
TransitionSection(s, matrix, base, i) ==
    IF i > s.total_states_added THEN <<>>
    ELSE <<Len(matrix[i])>> \o FlattenTransitions(s, matrix[i], base)
         \o TransitionSection(s, matrix, base, i + 1)

\* the raw number of a stored output value
RawValue(output_value) == output_value.v

RECURSIVE FlattenOutputs(_)
FlattenOutputs(hw_state) ==
    IF hw_state = <<>> THEN <<>>
    ELSE <<Head(hw_state)[1], RawValue(Head(hw_state)[2])>>
         \o FlattenOutputs(Tail(hw_state))

\* lines 156-167: tmp of the OUTPUT MATRIX
RECURSIVE OutputSection(_, _, _)
OutputSection(s, c, i) ==
    IF i > s.total_states_added THEN <<>>
    ELSE LET hw_state == SelectSeq(s.output_matrix[i],
                 LAMBDA evt : evt[1] < c.events_positions.globalTimerTrigger)
         IN <<Len(hw_state)>> \o FlattenOutputs(hw_state)
            \o OutputSection(s, c, i + 1)

\* A variant that numbers the states from one.
RECURSIVE CompressedPairs_OneBased(_, _, _)
CompressedPairs_OneBased(xs, n, i) ==
    IF i > n THEN <<>>
    ELSE (IF xs[i] # 0 THEN <<i, xs[i]>> ELSE <<>>)
         \o CompressedPairs_OneBased(xs, n, i + 1)

\* lines 313-321: the compressed (state, value) pairs of the non-zero entries
RECURSIVE CompressedPairs(_, _, _)
CompressedPairs(xs, n, i) ==
    IF i > n THEN <<>>
    ELSE (IF xs[i] # 0 THEN <<i - 1, xs[i]>> ELSE <<>>)
         \o CompressedPairs(xs, n, i + 1)

\* lines 304-323: tmp of GLOBAL_COUNTER_RESETS
GlobalCounterResetsSection(s, hw) ==
    LET n == s.total_states_added
        reset_matrix == s.global_counters.reset_matrix
    IN IF hw.firmware_version < 23
       THEN [i \in 1..n |-> reset_matrix[i]]
       ELSE LET pairs == CompressedPairs(reset_matrix, n, 1)
            IN <<Len(pairs) \div 2>> \o pairs

\* A variant that lists the zero masks too.
RECURSIVE StateThreshPairs_All(_, _, _)
StateThreshPairs_All(outputs, pos, i) ==
    IF outputs = <<>> THEN <<>>
    ELSE (IF Head(outputs)[1] = pos
          THEN <<i, RawValue(Head(outputs)[2])>> ELSE <<>>)
         \o StateThreshPairs_All(Tail(outputs), pos, i)

\* lines 331-338 and 350-357: the (state, mask) pairs one state contributes
RECURSIVE StateThreshPairs(_, _, _)
StateThreshPairs(outputs, pos, i) ==
    IF outputs = <<>> THEN <<>>
    ELSE (IF Head(outputs)[1] = pos /\ RawValue(Head(outputs)[2]) # 0
          THEN <<i, RawValue(Head(outputs)[2])>> ELSE <<>>)
         \o StateThreshPairs(Tail(outputs), pos, i)

RECURSIVE ThreshPairs(_, _, _)
ThreshPairs(s, pos, i) ==
    IF i > s.total_states_added THEN <<>>
    ELSE StateThreshPairs(s.output_matrix[i], pos, i - 1)
         \o ThreshPairs(s, pos, i + 1)

AnalogThreshSection(s, pos) ==
    LET pairs == ThreshPairs(s, pos, 1)
    IN <<Len(pairs) \div 2>> \o pairs

\* ArduinoTypes.get_uint8_array: one byte per element
get_uint8_array(xs) == [k \in DOMAIN xs |-> xs[k] % 256]

\* ArduinoTypes.get_uint16_array: two little-endian bytes per element
RECURSIVE get_uint16_array(_)
get_uint16_array(xs) ==
    IF xs = <<>> THEN <<>> ELSE Uint16(Head(xs)) \o get_uint16_array(Tail(xs))

\* line 168: the bytes of the OUTPUT MATRIX, the whole of tmp in one width
OutputMatrixBytes(tmp, hw) ==
    IF hw.machine_type > 3 THEN get_uint16_array(tmp) ELSE get_uint8_array(tmp)

\* lines 254-268: 255 for a message of 0, two bytes each on machine_type > 3
TimerMessages(vs, hw) ==
    LET tmp == [k \in DOMAIN vs |-> IF vs[k] = 0 THEN 255 ELSE vs[k]]
    IN IF hw.machine_type > 3 THEN get_uint16_array(tmp) ELSE get_uint8_array(tmp)

\* StateMachineBuilder.build_message: the lists handed to ArduinoTypes,
\* section by section, for a machine that sets no condition (the
\* CONDITIONS sections are then empty).
build_message(s, hw, c) ==
    LET ep == c.events_positions
        nt == highest_used_global_timer(s)
        nc == highest_used_global_counter(s)
        g == s.global_timers
    IN [counts |-> <<s.total_states_added, nt, nc, 0>>,
        state_timer_matrix |-> StateTimerSection(s),
        input_matrix |-> TransitionSection(s, s.input_matrix, 0, 1),
        output_matrix |-> OutputSection(s, c, 1),
        output_matrix_bytes |-> OutputMatrixBytes(OutputSection(s, c, 1), hw),
        global_timer_start_matrix |->
            TransitionSection(s, s.global_timers.start_matrix, ep.globalTimerStart, 1),
        global_timer_end_matrix |->
            TransitionSection(s, s.global_timers.end_matrix, ep.globalTimerEnd, 1),
        global_counter_matrix |->
            TransitionSection(s, s.global_counters.matrix, ep.globalCounter, 1),
        condition_matrix |->
            TransitionSection(s, s.conditions.matrix, ep.condition, 1),
        global_timer_channels |-> get_uint8_array(SubSeq(g.channels, 1, nt)),
        global_timer_on_messages |->
            TimerMessages(SubSeq(g.on_messages, 1, nt), hw),
        global_timer_off_messages |->
            TimerMessages(SubSeq(g.off_messages, 1, nt), hw),
        global_timer_loop_mode |-> get_uint8_array(SubSeq(g.loop_mode, 1, nt)),
        global_timer_events |-> get_uint8_array(SubSeq(g.send_events, 1, nt)),
        global_counter_attached_events |->
            get_uint8_array(SubSeq(s.global_counters.attached_events, 1, nc)),
        global_counter_resets |-> GlobalCounterResetsSection(s, hw),
        analog_thresholds_enable |->
            IF hw.machine_type > 3
            THEN AnalogThreshSection(s, ep.analogThreshEnable) ELSE <<>>,
        analog_thresholds_disable |->
            IF hw.machine_type > 3
            THEN AnalogThreshSection(s, ep.analogThreshDisable) ELSE <<>>]

\* ord(SendMessageHeader.LOAD_SERIAL_MESSAGE): the character 'L'
LOAD_SERIAL_MESSAGE == 76

\* lines 442-444: [j, len(ser_msg), ser_msg] for j in range(n), the message
\* itself being one element of the list
RECURSIVE SerialMessageEntries(_, _, _)
SerialMessageEntries(d, n, j) ==
    IF j >= n THEN <<>>
    ELSE <<PyInt(j), PyInt(Len(d.by_idx[j])), PyList(d.by_idx[j])>>
         \o SerialMessageEntries(d, n, j + 1)

\* lines 438-445: the loop over the UART channel indices
RECURSIVE UartChannelOps(_, _, _)
UartChannelOps(s, hw, i) ==
    IF i >= hw.n_uart_channels THEN <<>>
    ELSE (IF s.n_serial_messages[i + 1] > 0
          THEN <<PyInt(1), PyInt(LOAD_SERIAL_MESSAGE), PyInt(i),
                 PyInt(s.n_serial_messages[i + 1])>>
               \o SerialMessageEntries(SerialDict(s, i), s.n_serial_messages[i + 1], 0)
          ELSE <<>>)
         \o UartChannelOps(s, hw, i + 1)

\* StateMachineBuilder.build_message_additional_ops: the list handed to
\* ArduinoTypes.get_uint8_array
build_message_additional_ops(s, hw) ==
    (IF s.serial_message_mode = 1 THEN UartChannelOps(s, hw, 0) ELSE <<>>)
    \o <<PyInt(0)>>

\* line 365: the state timers are cut to the states added
TrimStateTimers(s) ==
    [s EXCEPT !.state_timers = SubSeq(@, 1, s.total_states_added)]

\* len(message): one byte per element, two for the output matrix on machine_type > 3
MessageSize(m, hw) ==
    Len(m.counts) + Len(m.state_timer_matrix) + Len(m.input_matrix)
    + Len(m.output_matrix_bytes)
    + Len(m.global_timer_start_matrix) + Len(m.global_timer_end_matrix)
    + Len(m.global_counter_matrix) + Len(m.condition_matrix)
    + Len(m.global_timer_channels) + Len(m.global_timer_on_messages)
    + Len(m.global_timer_off_messages) + Len(m.global_timer_loop_mode)
    + Len(m.global_timer_events) + Len(m.global_counter_attached_events)
    + Len(m.global_counter_resets)
    + Len(m.analog_thresholds_enable) + Len(m.analog_thresholds_disable)

\* little-endian uint32 of one number
Uint32(n) ==
    <<n % 256, (n \div 256) % 256, (n \div 65536) % 256, (n \div 16777216) % 256>>

\* ArduinoTypes.get_uint32_array: four little-endian bytes per element
RECURSIVE get_uint32_array(_)
get_uint32_array(xs) ==
    IF xs = <<>> THEN <<>> ELSE Uint32(Head(xs)) \o get_uint32_array(Tail(xs))

\* StateMachineBuilder.build_message_global_timer, after build_message
build_message_global_timer(s, hw) ==
    LET g == s.global_timers
        message == SubSeq(g.triggers_matrix, 1, s.total_states_added)
                   \o SubSeq(g.cancels_matrix, 1, s.total_states_added)
                   \o SubSeq(g.onset_matrix, 1, highest_used_global_timer(s))
    IN IF hw.n_global_timers > 16 THEN get_uint32_array(message)
       ELSE IF hw.n_global_timers > 8 THEN get_uint16_array(message)
       ELSE get_uint8_array(message)

\* lines 404-422: the list handed to get_uint32_array; s is the machine
\* after build_message, its state_timers trimmed to the states added
ThirtyTwoBitMessage(s, hw) ==
    LET g == s.global_timers
        cf == hw.cycle_frequency
        nt == highest_used_global_timer(s)
        nc == highest_used_global_counter(s)
    IN [k \in DOMAIN s.state_timers |-> s.state_timers[k] * cf]
       \o [i \in 1..nt |-> g.timers[i] * cf]
       \o [i \in 1..nt |-> g.on_set_delays[i] * cf]
       \o [i \in 1..nt |-> g.loop_intervals[i] * cf]
       \o [i \in 1..nc |-> s.global_counters.thresholds[i]]

\* StateMachineBuilder.build_message_32_bits
build_message_32_bits(s, hw) == get_uint32_array(ThirtyTwoBitMessage(s, hw))

(***************************************************************************)
(* The descriptors, modules and calls the model draws from                 *)
(***************************************************************************)
\* A device without flex channels (machine_type 3) ...
Descriptor3 ==
    [machine_type |-> 3, firmware_version |-> 22, max_states |-> 5,
     max_serial_events |-> 3, n_global_timers |-> 2, n_global_counters |-> 1,
     n_conditions |-> 1, cycle_period |-> 100,
     inputs |-> <<"U", "U", "X", "B", "P">>,
     outputs |-> <<"U", "U", "X", "B", "W", "P", "V">>,
     flex_channel_types |-> <<>>]

\* ... and one with two flex channels (machine_type 4)
Descriptor4(flex_channel_types) ==
    [machine_type |-> 4, firmware_version |-> 23, max_states |-> 5,
     max_serial_events |-> 3, n_global_timers |-> 2, n_global_counters |-> 1,
     n_conditions |-> 1, cycle_period |-> 100,
     inputs |-> <<"U", "U", "X", "F", "F", "B", "P">>,
     outputs |-> <<"U", "U", "X", "F", "F", "B", "P", "V">>,
     flex_channel_types |-> flex_channel_types]

Modules == <<Module(1), Module(1)>>

MachineDescriptors == {Descriptor3, Descriptor4(<<3, 1>>)}

FlexTypes == 0..3

LayoutDescriptors ==
    {Descriptor3}
    \cup {[Descriptor4(<<a, b>>) EXCEPT !.n_global_timers = nt, !.n_global_counters = nc]
            : a \in FlexTypes, b \in FlexTypes, nt \in 1..2, nc \in 1..2}

\* Channels() followed by setup_input_channels and setup_output_channels
ResolveChannels(hw, mods) ==
    setup_output_channels(setup_input_channels(ChannelsInit, hw, mods), hw, mods)

Call(state_name, state_timer, state_change_conditions, output_actions) ==
    [state_name |-> state_name, state_timer |-> state_timer,
     state_change_conditions |-> state_change_conditions,
     output_actions |-> output_actions]

\* add_state calls that exercise the transitions
TransitionCalls ==
    { Call("A", 1, << <<"Tup", "B">>, <<"Port1In", "B">>, <<"GlobalTimer1_Start", "B">>,
                      <<"GlobalTimer1_End", "B">>, <<"GlobalCounter1_End", "B">>,
                      <<"Condition1", "B">> >>, <<>>),
      Call("A", 1, << <<"Tup", "B">> >>, <<>>),
      Call("A", 1, << <<"Tup", "exit">> >>, <<>>),
      Call("A", 0, << <<"Tup", "back">>, <<"Port1In", "A">> >>, <<>>),
      Call("A", 1, <<>>, << <<"PWM1", PyInt(255)>> >>),
      Call("B", 1, << <<"Tup", "exit">> >>, <<>>),
      Call("B", 1, << <<"Tup", "A">>, <<"Port1In", "exit">> >>, <<>>),
      Call("B", 0, << <<"GlobalTimer2_End", "C">>, <<"Condition1", "A">> >>, <<>>),
      Call("C", 1, << <<"Tup", "A">>, <<"GlobalCounter1_End", "back">> >>, <<>>),
      Call("C", 1, << <<"Port1In", "B">>, <<"Tup", "C">> >>, <<>>),
      Call("A", 1, << <<"Port9In", "B">> >>, <<>>),
      Call("B", 1, << <<"Tup", "Z">> >>, <<>>),
      Call("B", 0, <<>>, << <<"Valve", PyInt(1)>> >>) }

\* add_state calls that exercise the output actions
ActionCalls ==
    { Call("A", 1, << <<"Tup", "exit">> >>, << <<"Serial1", PyList(<<1, 2, 3>>)>> >>),
      Call("B", 1, << <<"Tup", "exit">> >>, << <<"Serial1", PyList(<<1, 2, 3>>)>> >>),
      Call("A", 1, << <<"Tup", "exit">> >>, << <<"Serial2", PyList(<<1, 2, 3>>)>> >>),
      Call("B", 1, <<>>, << <<"Serial2", PyList(<<7>>)>>, <<"Serial1", PyList(<<7>>)>> >>),
      Call("A", 1, <<>>, << <<"Serial1", PyInt(5)>> >>),
      Call("B", 1, <<>>, << <<"PWM1", PyInt(255)>>, <<"Valve", PyInt(1)>> >>),
      Call("A", 1, <<>>, << <<"GlobalCounterReset", PyInt(1)>> >>),
      Call("B", 1, <<>>, << <<"GlobalCounterReset", PyInt(1)>> >>),
      Call("A", 1, <<>>, << <<"GlobalTimerTrig", PyInt(2)>> >>),
      Call("B", 1, <<>>, << <<"GlobalTimerTrig", PyStr(<<"1", "1">>)>> >>),
      Call("A", 1, <<>>, << <<"GlobalTimerCancel", PyInt(1)>> >>),
      Call("B", 1, <<>>, << <<"SoftCode", PyInt(3)>>, <<"BNC1", PyInt(1)>> >>),
      Call("A", 1, <<>>, << <<"Flex1AO", PyFloat(2500)>> >>),
      Call("B", 1, <<>>, << <<"AnalogThreshEnable", PyStr(<<"0", "1">>)>> >>) }

\* add_state calls that name events and output channels, present or not
NameCalls ==
    { Call("A", 1, << <<"Tup", "exit">> >>, << <<"PWM1", PyInt(255)>> >>),
      Call("A", 1, << <<"Port9In", "exit">> >>, <<>>),
      Call("B", 1, << <<"Tup", "exit">> >>, << <<"Bogus", PyInt(1)>> >>),
      Call("A", 1, <<>>, << <<"Valve", PyInt(1)>> >>),
      Call("B", 1, <<>>, << <<"Valve", PyInt(9)>> >>),
      Call("A", 1, <<>>, << <<"LED", PyInt(1)>> >>),
      Call("B", 1, <<>>, << <<"LED", PyInt(9)>> >>) }

\* add_state calls with AnalogThreshEnable / AnalogThreshDisable masks for
\* a device with two flex channels: bit-strings and lists, of the right
\* length and not, of binary digits and not
ThreshCalls ==
    { Call("A", 1, <<>>, << <<"AnalogThreshEnable", PyStr(<<"0", "1">>)>> >>),
      Call("B", 1, <<>>, << <<"AnalogThreshEnable", PyStr(<<"0", "0">>)>> >>),
      Call("A", 1, <<>>, << <<"AnalogThreshDisable", PyList(<<1, 0>>)>> >>),
      Call("B", 1, <<>>, << <<"AnalogThreshEnable", PyStr(<<"1", "0">>)>>,
                            <<"PWM1", PyInt(255)>>,
                            <<"AnalogThreshDisable", PyStr(<<"1", "1">>)>> >>),
      Call("C", 1, <<>>, << <<"AnalogThreshDisable", PyList(<<0, 0>>)>>,
                            <<"AnalogThreshEnable", PyList(<<1, 1>>)>> >>),
      Call("A", 1, <<>>, << <<"AnalogThreshEnable", PyStr(<<"1">>)>> >>),
      Call("B", 1, <<>>, << <<"AnalogThreshDisable", PyStr(<<"1", "2">>)>> >>),
      Call("A", 1, <<>>, << <<"AnalogThreshEnable", PyList(<<1, 0, 1>>)>> >>),
      Call("B", 1, <<>>, << <<"AnalogThreshEnable", PyInt(1)>> >>),
      Call("A", 1, <<>>, << <<"AnalogThreshEnable", PyStr(<<"-", "1">>)>> >>),
      Call("B", 1, <<>>, << <<"AnalogThreshDisable", PyList(<<10, 1>>)>> >>),
      Call("C", 1, << <<"Tup", "exit">> >>, << <<"PWM1", PyInt(255)>> >>) }

\* voltages in millivolts, below, in and above the range of a flex output
Voltages == {-1, 0, 1, 500, 1500, 2500, 3500, 4999, 5000, 5001}

\* add_state calls that set a voltage on a flex channel
FlexCalls ==
    {Call("A", 1, <<>>, << <<name, PyFloat(mv)>> >>) :
        name \in {"Flex1AO", "Flex2AO"}, mv \in Voltages}

\* devices with an analog output on the first or on the second flex channel
FlexDescriptors == {Descriptor4(<<3, 1>>), Descriptor4(<<1, 3>>)}

\* the counter numbers a reset_matrix entry is drawn from (0: no reset)
CounterNumbers == 0..2

\* the firmware versions a machine is compiled for, around the gate at 23
FirmwareVersions == {21, 22, 23, 24}

\* add_state calls that load implicit serial messages: on either UART
\* channel, new and repeated, empty and longer than serial_message_max_bytes
SerialCalls ==
    { Call("A", 1, <<>>, << <<"Serial1", PyList(<<1, 2, 3>>)>> >>),
      Call("B", 1, <<>>, << <<"Serial2", PyList(<<1, 2, 3>>)>> >>),
      Call("A", 1, <<>>, << <<"Serial1", PyList(<<9, 9>>)>> >>),
      Call("B", 1, <<>>, << <<"Serial2", PyList(<<7>>)>> >>),
      Call("A", 1, <<>>, << <<"Serial1", PyList(<<>>)>> >>),
      Call("B", 1, <<>>, << <<"Serial1", PyList(<<1, 2, 3, 4, 5, 6>>)>> >>) }

\* add_state calls that trigger and cancel global timers
TimerCalls ==
    { Call("A", 1, << <<"Tup", "B">> >>, << <<"GlobalTimerTrig", PyInt(1)>> >>),
      Call("A", 1, << <<"Tup", "exit">> >>, << <<"GlobalTimerCancel", PyInt(2)>> >>),
      Call("B", 2, << <<"Tup", "exit">> >>, <<>>),
      Call("B", 2, << <<"Tup", "exit">> >>, << <<"GlobalTimerCancel", PyInt(2)>> >>),
      Call("C", 3, << <<"GlobalTimer1_End", "exit">> >>,
           << <<"GlobalTimerTrig", PyInt(2)>>, <<"GlobalTimerCancel", PyInt(1)>> >>) }

\* set_global_timer arguments: duration, on-set delay and loop interval in
\* seconds
TimerSettings ==
    { [timer_duration |-> 1, on_set_delay |-> 0, loop_intervals |-> 0],
      [timer_duration |-> 2, on_set_delay |-> 1, loop_intervals |-> 3] }

TimerIds == 1..3

\* set_global_counter arguments
CounterSettings ==
    { [counter_number |-> 1, target_event |-> "Tup", threshold |-> 2],
      [counter_number |-> 1, target_event |-> "Port1In", threshold |-> 5],
      [counter_number |-> 1, target_event |-> "Nowhere", threshold |-> 5],
      [counter_number |-> 2, target_event |-> "Tup", threshold |-> 2] }

\* add_state calls that declare states, some of them twice
TrialCalls ==
    { Call("A", 1, << <<"Tup", "B">> >>, <<>>),
      Call("A", 1, << <<"Tup", "exit">> >>, <<>>),
      Call("B", 1, << <<"Tup", "exit">>, <<"Port1In", "A">> >>, <<>>),
      Call("C", 1, << <<"Tup", "A">> >>, <<>>) }

\* the longest trial
MaxVisits == 3

\* raw timestamps of a trial, one more than its states
Timestamps == {<<0, 1, 2, 3, 4>>, <<2, 3, 5, 6, 9>>}

\* the trials a compiled machine can have run: the states visited, as
\* ordinals of declared states, and their timestamps
Trials(s) ==
    {[states |-> states, state_timestamps |-> SubSeq(ts, 1, Len(states) + 1)] :
        states \in UNION {[1..n -> 0..(Len(s.state_names) - 1)] : n \in 1..MaxVisits},
        ts \in Timestamps}

RunAsap == {"None", "False", "True"}

(***************************************************************************)
(* Session.add_trial_events                                                *)
(***************************************************************************)
StateOccurrence(name, start, end) == [name |-> name, start |-> start, end |-> end]

\* lines 94-105: uniqueStates, the visited states in the order first visited
RECURSIVE UniqueStates(_, _, _)
UniqueStates(states, i, acc) ==
    IF i > Len(states) THEN acc
    ELSE UniqueStates(states, i + 1,
                      IF states[i] \in Range(acc) THEN acc ELSE Append(acc, states[i]))

\* line 105: visitedStates[current_trial.states[i]] = 1
VisitedStates(s, states) ==
    [k \in 1..s.total_states_added |-> IF (k - 1) \in Range(states) THEN 1 ELSE 0]

\* lines 108-113: the (start, end) pairs collected for one unique state
RECURSIVE StateData(_, _, _)
StateData(trial, u, i) ==
    IF i > Len(trial.states) THEN <<>>
    ELSE (IF trial.states[i] = u
          THEN << <<trial.state_timestamps[i], trial.state_timestamps[i + 1]>> >>
          ELSE <<>>)
         \o StateData(trial, u, i + 1)

\* lines 115-119: one StateOccurrence per collected pair, unique state by
\* unique state
RECURSIVE VisitedOccurrences(_, _, _, _, _)
VisitedOccurrences(s, trial, unique, i, acc) ==
    IF i > Len(unique) THEN acc
    ELSE IF ~InRange(s.state_names, unique[i]) THEN [acc EXCEPT !.err = "IndexError"]
    ELSE LET thisStateName == s.state_names[PyIndex(s.state_names, unique[i])]
             data == StateData(trial, unique[i], 1)
         IN VisitedOccurrences(s, trial, unique, i + 1,
                [acc EXCEPT !.history =
                    @ \o [k \in DOMAIN data |->
                             StateOccurrence(thisStateName, data[k][1], data[k][2])]])

\* lines 123-126: for i in range(sma.total_states_added), the states not
\* visited
RECURSIVE UnvisitedOccurrences(_, _, _, _)
UnvisitedOccurrences(s, visited, i, acc) ==
    IF acc.err # "none" \/ i >= s.total_states_added THEN acc
    ELSE IF ~InRange(s.state_names, i) THEN [acc EXCEPT !.err = "IndexError"]
    ELSE UnvisitedOccurrences(s, visited, i + 1,
            IF visited[i + 1] = 0
            THEN [acc EXCEPT !.history =
                     Append(@, StateOccurrence(s.state_names[i + 1], NaN, NaN))]
            ELSE acc)

\* Session.add_trial_events: what the session has been handed, and the
\* exception that ended the call if one did
add_trial_events(s, trial) ==
    UnvisitedOccurrences(s, VisitedStates(s, trial.states), 0,
        VisitedOccurrences(s, trial, UniqueStates(trial.states, 1, <<>>), 1,
                           [history |-> <<>>, err |-> "none"]))

(***************************************************************************)
(* The state machine of the model                                          *)
(***************************************************************************)
NoOp == [op |-> "none"]

\* A connected device: the layout is resolved, the state machine is new.
InitMachine ==
    /\ hardware \in {Hardware(d) : d \in MachineDescriptors}
    /\ modules = Modules
    /\ channels = ResolveChannels(hardware, modules)
    /\ sma = StateMachineInit(hardware)
    /\ pc = "building"
    /\ ncalls = 0
    /\ last = NoOp
    /\ hist = <<>>
    /\ out = <<>>

\* sma.add_state(**call)
AddState(call) ==
    /\ pc = "building"
    /\ ncalls < MaxCalls
    /\ LET r == add_state(sma, hardware, channels, call.state_name, call.state_timer,
                          call.state_change_conditions, call.output_actions)
       IN /\ sma' = r.s
          /\ last' = [op |-> "add_state", call |-> call, err |-> r.err, pre |-> sma]
          /\ hist' = Append(hist, [call |-> call, err |-> r.err])
    /\ ncalls' = ncalls + 1
    /\ UNCHANGED <<hardware, modules, channels, pc, out>>

\* update_state_numbers, build_message and build_header, as when the
\* machine is sent to the device
Compile(run_asap) ==
    /\ pc = "building"
    /\ LET r == update_state_numbers(sma)
           message == build_message(r.s, hardware, channels)
       IN /\ sma' = IF r.err = "none" THEN TrimStateTimers(r.s) ELSE r.s
          /\ last' = [op |-> "compile", run_asap |-> run_asap, err |-> r.err, pre |-> sma]
          /\ IF r.err = "none"
             THEN /\ pc' = "compiled"
                  /\ out' = [message |-> message,
                             header |-> build_header(r.s, run_asap,
                                                     MessageSize(message, hardware)),
                             additional_ops |->
                                 build_message_additional_ops(r.s, hardware)]
             ELSE /\ pc' = "failed"
                  /\ out' = out
    /\ UNCHANGED <<hardware, modules, channels, ncalls, hist>>

Next ==
    \/ \E call \in TransitionCalls : AddState(call)
    \/ \E run_asap \in RunAsap : Compile(run_asap)

Spec == InitMachine /\ [][Next]_vars

NextActions ==
    \/ \E call \in ActionCalls : AddState(call)
    \/ \E run_asap \in RunAsap : Compile(run_asap)

SpecActions == InitMachine /\ [][NextActions]_vars

NextNames ==
    \/ \E call \in NameCalls : AddState(call)
    \/ \E run_asap \in RunAsap : Compile(run_asap)

SpecNames == InitMachine /\ [][NextNames]_vars

NextThresh ==
    \/ \E call \in ThreshCalls : AddState(call)
    \/ \E run_asap \in RunAsap : Compile(run_asap)

SpecThresh == InitMachine /\ [][NextThresh]_vars

\* A connected device with an analog flex output, and a new state machine.
InitFlex ==
    /\ hardware \in {Hardware(d) : d \in FlexDescriptors}
    /\ modules = Modules
    /\ channels = ResolveChannels(hardware, modules)
    /\ sma = StateMachineInit(hardware)
    /\ pc = "building"
    /\ ncalls = 0
    /\ last = NoOp
    /\ hist = <<>>
    /\ out = <<>>

NextFlex == \E call \in FlexCalls : AddState(call)

SpecFlex == InitFlex /\ [][NextFlex]_vars

\* sma.set_global_timer(timer_id, timer_duration, on_set_delay,
\*                      loop_intervals=loop_intervals)
SetGlobalTimer(timer_id, a) ==
    /\ pc = "building"
    /\ LET r == set_global_timer(sma, timer_id, a.timer_duration, a.on_set_delay,
                                 a.loop_intervals)
       IN /\ sma' = r.s
          /\ last' = [op |-> "set_global_timer", timer_id |-> timer_id,
                      err |-> r.err, pre |-> sma]
    /\ UNCHANGED <<hardware, modules, channels, pc, ncalls, hist, out>>

\* sma.set_global_counter(counter_number, target_event, threshold)
SetGlobalCounter(a) ==
    /\ pc = "building"
    /\ LET r == set_global_counter(sma, channels, a.counter_number, a.target_event,
                                   a.threshold)
       IN /\ sma' = r.s
          /\ last' = [op |-> "set_global_counter",
                      counter_number |-> a.counter_number,
                      err |-> r.err, pre |-> sma]
    /\ UNCHANGED <<hardware, modules, channels, pc, ncalls, hist, out>>

\* update_state_numbers, build_message, build_message_global_timer and
\* build_message_32_bits, in the order the blocks are sent to the device
BuildMessages ==
    /\ pc = "building"
    /\ LET r == update_state_numbers(sma)
           built == TrimStateTimers(r.s)
       IN /\ sma' = IF r.err = "none" THEN built ELSE r.s
          /\ last' = [op |-> "build_messages", err |-> r.err, pre |-> sma]
          /\ IF r.err = "none"
             THEN /\ pc' = "compiled"
                  /\ out' = [message |-> build_message(r.s, hardware, channels),
                             global_timer |->
                                 build_message_global_timer(built, hardware),
                             thirty_two_bits |->
                                 build_message_32_bits(built, hardware)]
             ELSE /\ pc' = "failed"
                  /\ out' = out
    /\ UNCHANGED <<hardware, modules, channels, ncalls, hist>>

NextTimers ==
    \/ \E call \in TimerCalls : AddState(call)
    \/ \E timer_id \in TimerIds, a \in TimerSettings : SetGlobalTimer(timer_id, a)
    \/ \E a \in CounterSettings : SetGlobalCounter(a)
    \/ BuildMessages

SpecTimers == InitMachine /\ [][NextTimers]_vars

NextSerial ==
    \/ \E call \in SerialCalls : AddState(call)
    \/ \E run_asap \in {"None"} : Compile(run_asap)

SpecSerial == InitMachine /\ [][NextSerial]_vars

\* A state machine with any number of states and any reset_matrix.
InitResets ==
    /\ hardware \in {Hardware(d) : d \in MachineDescriptors}
    /\ modules = Modules
    /\ channels = ResolveChannels(hardware, modules)
    /\ \E n \in 0..hardware.max_states :
       \E reset_matrix \in [1..hardware.max_states -> CounterNumbers] :
          sma = [StateMachineInit(hardware) EXCEPT
                    !.total_states_added = n,
                    !.global_counters.reset_matrix = reset_matrix]
    /\ pc = "building"
    /\ ncalls = 0
    /\ last = NoOp
    /\ hist = <<>>
    /\ out = <<>>

\* lines 304-323 of build_message for the machine on a given firmware: the
\* section is kept under the layout it has
BuildResets(firmware_version) ==
    /\ pc = "building"
    /\ LET layout == IF firmware_version < 23 THEN "uncompressed" ELSE "compressed"
           hw == [hardware EXCEPT !.firmware_version = firmware_version]
       IN /\ layout \notin DOMAIN out
          /\ out' = DictSet(out, layout, GlobalCounterResetsSection(sma, hw))
    /\ last' = [op |-> "build_resets", firmware_version |-> firmware_version]
    /\ UNCHANGED <<hardware, modules, channels, sma, pc, ncalls, hist>>

NextResets == \E firmware_version \in FirmwareVersions : BuildResets(firmware_version)

SpecResets == InitResets /\ [][NextResets]_vars

\* session.add_trial_events() once the trial of the compiled machine is over
AddTrialEvents(trial) ==
    /\ pc = "compiled"
    /\ LET r == add_trial_events(sma, trial)
       IN /\ out' = DictSet(out, "history", r.history)
          /\ last' = [op |-> "add_trial_events", trial |-> trial, err |-> r.err]
    /\ pc' = "trial"
    /\ UNCHANGED <<hardware, modules, channels, sma, ncalls, hist>>

NextTrial ==
    \/ \E call \in TrialCalls : AddState(call)
    \/ \E run_asap \in RunAsap : Compile(run_asap)
    \/ \E trial \in Trials(sma) : AddTrialEvents(trial)

SpecTrial == InitMachine /\ [][NextTrial]_vars

\* A descriptor just read from the device: nothing is resolved yet.
InitLayout ==
    /\ hardware \in {Hardware(d) : d \in LayoutDescriptors}
    /\ modules = Modules
    /\ channels = ChannelsInit
    /\ sma = StateMachineInit(hardware)
    /\ pc = "layout"
    /\ ncalls = 0
    /\ last = NoOp
    /\ hist = <<>>
    /\ out = <<>>

\* hardware.channels.setup_input_channels(...); setup_output_channels(...)
SetupChannels ==
    /\ pc = "layout"
    /\ channels' = ResolveChannels(hardware, modules)
    /\ pc' = "building"
    /\ last' = [op |-> "setup_channels"]
    /\ UNCHANGED <<hardware, modules, sma, ncalls, hist, out>>

NextLayout == SetupChannels

\* both setup methods called once more on the object that holds a layout
SetupChannelsAgain ==
    /\ pc = "building"
    /\ ncalls < MaxCalls
    /\ channels' = setup_output_channels(
                       setup_input_channels(channels, hardware, modules),
                       hardware, modules)
    /\ ncalls' = ncalls + 1
    /\ last' = [op |-> "setup_channels_again", pre |-> channels]
    /\ UNCHANGED <<hardware, modules, sma, pc, hist, out>>

\* a second Channels object, constructed and set up for the same descriptor
\* and modules
SetupNewChannels ==
    /\ out = <<>>
    /\ out' = [channels |->
                   setup_output_channels(
                       setup_input_channels(NewChannels(channels), hardware, modules),
                       hardware, modules)]
    /\ UNCHANGED <<hardware, modules, channels, sma, pc, ncalls, last, hist>>

NextRelayout ==
    \/ SetupChannels
    \/ SetupChannelsAgain
    \/ SetupNewChannels

SpecRelayout == InitLayout /\ [][NextRelayout]_vars

SpecLayout == InitLayout /\ [][NextLayout]_vars

(***************************************************************************)
(* Properties.  A property about one call reads the call and the machine   *)
(* before it from last, the machine after it from sma, and the earlier     *)
(* calls from hist.                                                        *)
(***************************************************************************)
\* every add_state call made so far returned normally
AllReturned == \A k \in DOMAIN hist : hist[k].err = "none"

\* the five matrices of (event code, destination) lists
TransitionMatrices(s) ==
    <<s.input_matrix, s.global_timers.start_matrix, s.global_timers.end_matrix,
      s.global_counters.matrix, s.conditions.matrix>>

\* the state number a stored destination d stands for: a sentinel stands for
\* the manifest ordinal of the name it was recorded for
ManifestOrdinal(s, d) ==
    IF d >= UndeclaredBase
    THEN IndexOf(s.manifest, s.undeclared[d - UndeclaredBase + 1])
    ELSE d

\* every name recorded as undeclared has been declared since
TargetsDeclared(s) == \A k \in DOMAIN s.undeclared : s.undeclared[k] \in Range(s.manifest)

ForwardThenExit ==
    <<Call("A", 1, << <<"Tup", "B">> >>, <<>>), Call("B", 1, << <<"Tup", "exit">> >>, <<>>)>>

\* C1: when every add_state call returned and every transition target has
\* been declared, update_state_numbers returns normally, and in every state
\* below total_states_added each destination of the six matrices is what it
\* was before, a sentinel 10000+idx replaced by the manifest ordinal of
\* undeclared[idx]; none is a sentinel any more.  A: Tup->B then
\* B: Tup->exit compiles to the state timer matrix [1, 2] with two states.
C1_SentinelsResolved ==
    (last.op = "compile" /\ AllReturned /\ TargetsDeclared(last.pre))
    => /\ last.err = "none"
       /\ \A j \in 1..sma.total_states_added :
            /\ sma.state_timer_matrix[j]
                 = ManifestOrdinal(last.pre, last.pre.state_timer_matrix[j])
            /\ sma.state_timer_matrix[j] < UndeclaredBase
            /\ \A m \in 1..5 :
                 LET before == TransitionMatrices(last.pre)[m][j]
                     after  == TransitionMatrices(sma)[m][j]
                 IN /\ Len(after) = Len(before)
                    /\ \A k \in DOMAIN before :
                         /\ after[k] = <<before[k][1], ManifestOrdinal(last.pre, before[k][2])>>
                         /\ after[k][2] < UndeclaredBase
       /\ [k \in DOMAIN hist |-> hist[k].call] = ForwardThenExit
            => /\ out.message.state_timer_matrix = <<1, 2>>
               /\ sma.total_states_added = 2

\* a machine whose six matrices all held a forward reference compiled
C1_Witness ==
    /\ last.op = "compile" /\ last.err = "none" /\ AllReturned
    /\ last.pre.state_timer_matrix[1] = UndeclaredBase
    /\ \A m \in 1..5 :
         \E k \in DOMAIN TransitionMatrices(last.pre)[m][1] :
            TransitionMatrices(last.pre)[m][1][k][2] > UndeclaredBase
    /\ out.message.state_timer_matrix = <<1, 2>>

\* the zero-based index of the first name of a list that is in a set
RECURSIVE FirstIn(_, _, _)
FirstIn(names, kind, k) ==
    IF k > Len(names) THEN -1
    ELSE IF names[k] \in kind THEN k - 1
    ELSE FirstIn(names, kind, k + 1)

\* C2: after resolution every recorded base position is the zero-based index
\* of the first name of its kind: the first global timer start and end
\* events, the first global counter event, the first condition, Tup, and
\* the first output channel of each kind the descriptor has.
C2_BasePositions ==
    last.op = "setup_channels"
    => LET ep == channels.events_positions
           en == channels.event_names
           on == channels.output_channel_names
       IN /\ IndexOf(en, "GlobalTimer1_Start") = ep.globalTimerStart
          /\ IndexOf(en, "GlobalTimer1_End") = ep.globalTimerEnd
          /\ IndexOf(en, "GlobalCounter1_End") = ep.globalCounter
          /\ IndexOf(en, "Condition1") = ep.condition
          /\ IndexOf(en, "Tup") = ep.Tup
          /\ IndexOf(on, "SoftCode") = ep.output_USB
          /\ IndexOf(on, "Valve1") = ep.output_VALVE
          /\ IndexOf(on, "BNC1") = ep.output_BNC
          /\ IndexOf(on, "PWM1") = ep.output_PWM
          /\ "Wire1" \in Range(on) => IndexOf(on, "Wire1") = ep.output_Wire
          /\ hardware.n_flex_channels > 0
               => FirstIn(on, {"Flex1DO", "Flex1AO", "---"}, 1) = ep.output_Flex
          /\ IndexOf(on, "GlobalTimerTrig") = ep.globalTimerTrigger
          /\ IndexOf(on, "GlobalTimerCancel") = ep.globalTimerCancel
          /\ IndexOf(on, "GlobalCounterReset") = ep.globalCounterReset
          /\ hardware.machine_type > 3
               => /\ IndexOf(on, "AnalogThreshEnable") = ep.analogThreshEnable
                  /\ IndexOf(on, "AnalogThreshDisable") = ep.analogThreshDisable

\* the rows of a transition section: per state the count n, then n pairs
RECURSIVE SectionRows(_)
SectionRows(section) ==
    IF section = <<>> THEN <<>>
    ELSE LET n == section[1]
         IN <<SubSeq(section, 2, 2 * n + 1)>>
            \o SectionRows(SubSeq(section, 2 * n + 2, Len(section)))

\* the destination bytes of a row, in order
RowDests(row) == [k \in 1..(Len(row) \div 2) |-> row[2 * k]]

\* the five transition sections of the compiled body, as in TransitionMatrices
TransitionSections(m) ==
    <<m.input_matrix, m.global_timer_start_matrix, m.global_timer_end_matrix,
      m.global_counter_matrix, m.condition_matrix>>

\* every emitted destination byte, each with the stored destination it encodes
EmittedDests ==
    {<<out.message.state_timer_matrix[j], sma.state_timer_matrix[j]>> :
        j \in 1..sma.total_states_added}
    \cup UNION {UNION {
            LET dests  == RowDests(SectionRows(TransitionSections(out.message)[m])[j])
                stored == TransitionMatrices(sma)[m][j]
            IN {<<dests[k], stored[k][2]>> : k \in DOMAIN dests}
          : j \in 1..sma.total_states_added} : m \in 1..5}

\* the sections hold one row per state and one pair per stored transition
SectionsWellFormed ==
    \A m \in 1..5 :
       LET rows == SectionRows(TransitionSections(out.message)[m])
       IN /\ Len(rows) = sma.total_states_added
          /\ \A j \in DOMAIN rows : Len(rows[j]) = 2 * Len(TransitionMatrices(sma)[m][j])

\* C3, as stated: every destination byte emitted in the six matrices lies
\* in [0, total_states_added], the upper bound exactly for 'exit'.
C3_DestinationsInRange ==
    pc = "compiled"
    => /\ SectionsWellFormed
       /\ \A e \in EmittedDests :
            /\ e[1] \in 0..sma.total_states_added
            /\ e[1] = sma.total_states_added <=> e[2] = NaN

\* C3, amended: every destination byte emitted in the six matrices is the
\* ordinal of a state (below total_states_added), or total_states_added,
\* exactly for 'exit', or 255, exactly for 'back', and then the header's
\* back flag is 1.
C3_DestinationsEncoded ==
    pc = "compiled"
    => /\ SectionsWellFormed
       /\ \A e \in EmittedDests :
            /\ e[1] \in 0..sma.total_states_added
               \/ (e[1] = BackCode /\ out.header[3] = 1)
            /\ e[1] = sma.total_states_added <=> e[2] = NaN
            /\ e[1] = BackCode <=> e[2] = BackCode
            /\ e[2] \notin {NaN, BackCode} => e[1] = e[2] /\ e[1] < Len(sma.manifest)

\* a compiled machine with a re-declared state, an 'exit' and a 'back'
C3_Witness ==
    /\ pc = "compiled"
    /\ sma.total_states_added > Len(sma.manifest)
    /\ \E e \in EmittedDests : e[1] = BackCode
    /\ \E e \in EmittedDests : e[1] = sma.total_states_added
    /\ \E e \in EmittedDests : e[2] \notin {NaN, BackCode}

\* some transition of some call targets 'back'
TargetsBack ==
    \E k \in DOMAIN hist :
       \E i \in DOMAIN hist[k].call.state_change_conditions :
          hist[k].call.state_change_conditions[i][2] \in {"back", ">back"}

\* C4: the header is 'C', then 1 if the machine is to run asap and 0
\* otherwise, then 1 iff some transition targets 'back', then the body size
\* as a little-endian u16; an empty machine with asap false gives [67, 0, 0].
C4_Header ==
    (last.op = "compile" /\ last.err = "none")
    => /\ Len(out.header) = 5
       /\ out.header[1] = 67
       /\ out.header[2] = (IF last.run_asap = "True" THEN 1 ELSE 0)
       /\ out.header[3] = (IF TargetsBack THEN 1 ELSE 0)
       /\ out.header[4] + 256 * out.header[5] = MessageSize(out.message, hardware)
       /\ (hist = <<>> /\ last.run_asap = "False") => SubSeq(out.header, 1, 3) = <<67, 0, 0>>

\* what a state compiles from: every matrix of the machine and the number of states
Matrices(s) ==
    [state_timers |-> s.state_timers, state_timer_matrix |-> s.state_timer_matrix,
     input_matrix |-> s.input_matrix, output_matrix |-> s.output_matrix,
     global_timers |-> s.global_timers, global_counters |-> s.global_counters,
     conditions |-> s.conditions, total_states_added |-> s.total_states_added]

\* C5: declaring a state a second time with the same arguments leaves every
\* matrix of the machine and the number of states as after the first time.
C5_Idempotent ==
    (/\ last.op = "add_state"
     /\ Len(hist) >= 2
     /\ hist[Len(hist) - 1].call = last.call
     /\ hist[Len(hist) - 1].err = "none")
    => /\ last.err = "none"
       /\ Matrices(sma) = Matrices(last.pre)

\* the UART channels, by output index
UartChannels == 0..(hardware.n_uart_channels - 1)

\* action k of a call loads a message (a list) on UART channel ch
LoadsOn(call, k, ch) ==
    /\ IndexOf(channels.output_channel_names, call.output_actions[k][1]) = ch
    /\ call.output_actions[k][2].t = "list"

\* the library of a channel: its stored messages, their indices, their number
Library(s, ch) == [messages |-> SerialDict(s, ch), n |-> s.n_serial_messages[ch + 1]]

\* C6: an add_state that loads no message on UART channel b leaves b's
\* library (messages, indices, count) alone, and a message it loads on b is
\* afterwards stored in b's library under an index that b counts.
C6_LibrariesIndependent ==
    (last.op = "add_state" /\ last.err = "none")
    => \A b \in UartChannels :
          /\ (\A k \in DOMAIN last.call.output_actions : ~LoadsOn(last.call, k, b))
               => Library(sma, b) = Library(last.pre, b)
          /\ \A k \in DOMAIN last.call.output_actions :
               LoadsOn(last.call, k, b)
               => \E n \in 0..(sma.n_serial_messages[b + 1] - 1) :
                     /\ n \in DOMAIN SerialDict(sma, b).by_idx
                     /\ SerialDict(sma, b).by_idx[n] = last.call.output_actions[k][2].v

\* the call has one action, which loads a message on a UART channel
SingleLoad(call) ==
    /\ Len(call.output_actions) = 1
    /\ \E ch \in UartChannels : LoadsOn(call, 1, ch)

\* the value stored by the last action of the call's state
StoredValue(s, call) ==
    LET row == s.output_matrix[IndexOf(s.manifest, call.state_name) + 1]
    IN row[Len(row)][2]

\* C7: when two calls in a row load the same bytes on the same UART channel,
\* both are accepted, both store the same message index, and the second
\* leaves the channel's n_serial_messages alone; two states each with
\* ('Serial1', [1,2,3]) and nothing else give n_serial_messages[0] = 1 and
\* index 0.
C7_SerialDedup ==
    (/\ last.op = "add_state"
     /\ Len(hist) >= 2
     /\ SingleLoad(last.call)
     /\ hist[Len(hist) - 1].call.output_actions = last.call.output_actions)
    => LET prev == hist[Len(hist) - 1]
           ch == IndexOf(channels.output_channel_names, last.call.output_actions[1][1])
       IN /\ prev.err = "none" /\ last.err = "none"
          /\ StoredValue(sma, last.call) = StoredValue(last.pre, prev.call)
          /\ sma.n_serial_messages[ch + 1] = last.pre.n_serial_messages[ch + 1]
          /\ (Len(hist) = 2 /\ last.call.output_actions[1] = <<"Serial1", PyList(<<1, 2, 3>>)>>)
               => /\ sma.n_serial_messages[1] = 1
                  /\ StoredValue(sma, last.call) = PyInt(0)

\* the ordinary hardware output channels of the layout
OrdinaryChannels ==
    {"Serial1", "Serial2", "SoftCode", "Valve1", "BNC1", "Wire1", "PWM1"}
    \cap Range(channels.output_channel_names)

\* every action of the call names an ordinary channel with a scalar integer
OrdinaryScalar(call) ==
    /\ call.output_actions # <<>>
    /\ \A k \in DOMAIN call.output_actions :
          /\ call.output_actions[k][1] \in OrdinaryChannels
          /\ call.output_actions[k][2].t = "int"

\* C8: an add_state whose actions name ordinary output channels with scalar
\* integers is accepted on every machine type, and each action is stored
\* unchanged as (output index, value), in the order given.
C8_PassThrough ==
    (last.op = "add_state" /\ OrdinaryScalar(last.call))
    => /\ last.err = "none"
       /\ LET row == sma.output_matrix[IndexOf(sma.manifest, last.call.state_name) + 1]
              n == Len(last.call.output_actions)
          IN /\ Len(row) >= n
             /\ SubSeq(row, Len(row) - n + 1, Len(row))
                  = [k \in 1..n |->
                       <<IndexOf(channels.output_channel_names, last.call.output_actions[k][1]),
                         last.call.output_actions[k][2]>>]

\* the call has one action, of the given name
SingleAction(call, action_name) ==
    /\ Len(call.output_actions) = 1
    /\ call.output_actions[1][1] = action_name

\* C9: ('GlobalCounterReset', n) in the state with ordinal i is accepted,
\* sets reset_matrix[i] = n and changes no other entry of reset_matrix.
C9_CounterReset ==
    (last.op = "add_state" /\ SingleAction(last.call, "GlobalCounterReset"))
    => /\ last.err = "none"
       /\ LET i == IndexOf(sma.manifest, last.call.state_name)
              n == last.call.output_actions[1][2].v
          IN sma.global_counters.reset_matrix
               = [last.pre.global_counters.reset_matrix EXCEPT ![i + 1] = n]

\* C10: ('GlobalTimerTrig', v) in the state with ordinal i is accepted and
\* sets triggers_matrix[i] to 2^(v-1) for an integer v and to the value of
\* the binary digits for a bit-string v.
C10_TimerTrig ==
    (last.op = "add_state" /\ SingleAction(last.call, "GlobalTimerTrig"))
    => /\ last.err = "none"
       /\ LET i == IndexOf(sma.manifest, last.call.state_name)
              v == last.call.output_actions[1][2]
          IN sma.global_timers.triggers_matrix[i + 1]
               = (IF v.t = "int" THEN Pow2(v.v - 1) ELSE int_base2(v.v).v)

\* the first event name of each of the four kinds whose codes are emitted
\* as offsets, in the order of TransitionMatrices 2..5
FirstEventNames == <<"GlobalTimer1_Start", "GlobalTimer1_End", "GlobalCounter1_End", "Condition1">>

\* the base positions recorded for the same four kinds
RecordedBases ==
    LET ep == channels.events_positions
    IN <<ep.globalTimerStart, ep.globalTimerEnd, ep.globalCounter, ep.condition>>

\* every (emitted code, stored raw code, kind) of the four offset sections
EmittedCodes ==
    UNION {UNION {
            LET row    == SectionRows(TransitionSections(out.message)[m + 1])[j]
                stored == TransitionMatrices(sma)[m + 1][j]
            IN {<<row[2 * k - 1], stored[k][1], m>> : k \in DOMAIN stored}
          : j \in 1..sma.total_states_added} : m \in 1..4}

\* C11: in the GLOBAL_TIMER_START, GLOBAL_TIMER_END, GLOBAL_COUNTER and
\* CONDITION sections the stored raw event code is at least the base
\* position of its kind, and the emitted offset of the event of the k-th
\* timer, counter or condition is k-1: the distance of the event's name from
\* the first name of its kind.
C11_EventOffsets ==
    pc = "compiled"
    => /\ SectionsWellFormed
       /\ \A e \in EmittedCodes :
            /\ e[2] >= RecordedBases[e[3]]
            /\ e[1] = e[2] - IndexOf(channels.event_names, FirstEventNames[e[3]])
            /\ e[1] \in 0..1

\* the output actions of a state that belong to the OUTPUT_MATRIX section
HardwareOutputs(s, j) ==
    SelectSeq(s.output_matrix[j],
              LAMBDA a : a[1] < channels.events_positions.globalTimerTrigger)

\* one element of a pair: one byte, or two little-endian bytes
PairElement(x) ==
    IF hardware.machine_type > 3 THEN <<x % 256, x \div 256>> ELSE <<x>>

RECURSIVE PairBytes(_)
PairBytes(outputs) ==
    IF outputs = <<>> THEN <<>>
    ELSE PairElement(Head(outputs)[1]) \o PairElement(Head(outputs)[2].v)
         \o PairBytes(Tail(outputs))

\* the section as stated: per state a one-byte count, then the pairs
RECURSIVE OutputMatrixAsStated(_, _)
OutputMatrixAsStated(s, j) ==
    IF j > s.total_states_added THEN <<>>
    ELSE <<Len(HardwareOutputs(s, j))>> \o PairBytes(HardwareOutputs(s, j))
         \o OutputMatrixAsStated(s, j + 1)

\* C12: the OUTPUT_MATRIX section holds, per state, a one-byte count n of
\* the actions whose code is below globalTimerTrigger, then exactly those n
\* (channel, value) pairs in the order added, each element one byte on
\* machine_type <= 3 and two little-endian bytes on machine_type > 3.
C12_OutputMatrix ==
    pc = "compiled"
    => out.message.output_matrix_bytes = OutputMatrixAsStated(sma, 1)

\* the bytes of a list of additional ops, a nested message read as its bytes
RECURSIVE FlatOps(_)
FlatOps(ops) ==
    IF ops = <<>> THEN <<>>
    ELSE (IF Head(ops).t = "list" THEN Head(ops).v ELSE <<Head(ops).v>>)
         \o FlatOps(Tail(ops))

\* the distinct messages the actions k.. of a call load on a UART channel
RECURSIVE CallLoads(_, _, _, _)
CallLoads(call, ch, k, acc) ==
    IF k > Len(call.output_actions) THEN acc
    ELSE LET msg == call.output_actions[k][2].v
         IN CallLoads(call, ch, k + 1,
                      IF LoadsOn(call, k, ch) /\ msg \notin Range(acc)
                      THEN Append(acc, msg) ELSE acc)

\* the distinct messages loaded on a UART channel, in the order first loaded
RECURSIVE HistLoads(_, _, _)
HistLoads(ch, i, acc) ==
    IF i > Len(hist) THEN acc
    ELSE HistLoads(ch, i + 1, CallLoads(hist[i].call, ch, 1, acc))

RECURSIVE LoadedMessages(_, _)
LoadedMessages(msgs, j) ==
    IF j > Len(msgs) THEN <<>>
    ELSE <<j - 1, Len(msgs[j])>> \o msgs[j] \o LoadedMessages(msgs, j + 1)

\* the block of every UART channel from ch on, in ascending channel order
RECURSIVE LoadBlocks(_)
LoadBlocks(ch) ==
    IF ch >= hardware.n_uart_channels THEN <<>>
    ELSE LET msgs == HistLoads(ch, 1, <<>>)
         IN (IF msgs = <<>> THEN <<>>
             ELSE <<1, 76, ch, Len(msgs)>> \o LoadedMessages(msgs, 1))
            \o LoadBlocks(ch + 1)

\* C13: the additional ops are, for each UART channel with at least one
\* implicit message, in ascending channel order, the bytes 1, 'L', channel,
\* count and then for each message index, length and the message bytes; they
\* end with a single 0 and are exactly [0] when no message was loaded.
C13_AdditionalOps ==
    (pc = "compiled" /\ AllReturned)
    => FlatOps(out.additional_ops) = LoadBlocks(0) \o <<0>>

\* C14: when some transition targets a name that is neither 'exit'/'back'
\* nor ever declared by add_state, update_state_numbers fails with
\* StateMachineBuilderError and no descriptor is produced.
C14_UndeclaredState ==
    (last.op = "compile" /\ ~TargetsDeclared(last.pre))
    => /\ last.err = "StateMachineBuilderError"
       /\ pc = "failed"
       /\ out = <<>>

\* the name an action's channel is looked up under
ChannelLookedUp(action) ==
    IF action[1] = "Valve" THEN "Valve" \o ValueSuffix(action[2])
    ELSE IF action[1] = "LED" THEN "PWM" \o ValueSuffix(action[2])
    ELSE action[1]

\* an event name outside event_names, or an action whose channel is not
\* an entry of output_channel_names
NamesUnknown(call) ==
    \/ \E k \in DOMAIN call.state_change_conditions :
          call.state_change_conditions[k][1] \notin Range(channels.event_names)
    \/ \E k \in DOMAIN call.output_actions :
          ChannelLookedUp(call.output_actions[k]) \notin Range(channels.output_channel_names)

\* C15: add_state fails with SMAError whenever an event name is not in
\* event_names or an action's channel does not resolve to an entry of
\* output_channel_names, the ('Valve', n) and ('LED', n) shorthands without
\* a 'Valve{n}' or 'PWM{n}' channel included.
C15_UnknownNames ==
    (last.op = "add_state" /\ NamesUnknown(last.call)) => last.err = "SMAError"

\* how often an occurrence is in a list of occurrences
Occurrences(xs, x) == Cardinality({k \in DOMAIN xs : xs[k] = x})

\* one occurrence per visit, then one without times per state never visited
TrialOccurrences(s, trial) ==
    [i \in DOMAIN trial.states |->
        StateOccurrence(s.state_names[trial.states[i] + 1],
                        trial.state_timestamps[i], trial.state_timestamps[i + 1])]
    \o [k \in DOMAIN SelectSeq(s.state_names,
                               LAMBDA n : IndexOf(s.state_names, n) \notin Range(trial.states)) |->
        StateOccurrence(SelectSeq(s.state_names,
                                  LAMBDA n : IndexOf(s.state_names, n)
                                                \notin Range(trial.states))[k],
                        NaN, NaN)]

\* C16: for a finished trial on a machine built by successful add_state
\* calls, re-declarations included, add_trial_events hands the session
\* exactly one StateOccurrence(name of s_i, t_i, t_{i+1}) per visit and
\* exactly one StateOccurrence(name, NaN, NaN) per declared state never
\* visited, and nothing else.
C16_TrialEvents ==
    (last.op = "add_trial_events" /\ AllReturned)
    => /\ last.err = "none"
       /\ Len(out.history) = Len(TrialOccurrences(sma, last.trial))
       /\ \A x \in Range(TrialOccurrences(sma, last.trial)) :
             Occurrences(out.history, x) = Occurrences(TrialOccurrences(sma, last.trial), x)

\* the actions (state, position in the state's list) stored with a given
\* output code and a non-zero value
NonZeroActions(s, code) ==
    UNION {{<<j, k>> : k \in {k \in DOMAIN s.output_matrix[j] :
                                 /\ s.output_matrix[j][k][1] = code
                                 /\ s.output_matrix[j][k][2] # PyInt(0)}}
           : j \in 1..s.total_states_added}

\* how many of them come before a given one, states ascending
Before(acts, e) ==
    Cardinality({f \in acts : f[1] < e[1] \/ (f[1] = e[1] /\ f[2] < e[2])})

\* a section is the number of the actions and then, action by action, the
\* ordinal of the state and the stored mask
ListsMasks(section, s, code) ==
    LET acts == NonZeroActions(s, code)
    IN /\ Len(section) = 1 + 2 * Cardinality(acts)
       /\ section[1] = Cardinality(acts)
       /\ \A e \in acts :
            /\ section[2 * Before(acts, e) + 2] = e[1] - 1
            /\ section[2 * Before(acts, e) + 3] = s.output_matrix[e[1]][e[2]][2].v

\* C17: the ANALOG_THRESHOLDS_ENABLE and ANALOG_THRESHOLDS_DISABLE sections
\* are in the compiled body if and only if machine_type > 3, and each is
\* the number of pairs followed by a pair (state_idx, mask) exactly for the
\* AnalogThreshEnable (resp. AnalogThreshDisable) actions whose stored mask
\* is non-zero.
C17_AnalogThresholds ==
    (pc = "compiled" /\ AllReturned)
    => LET ep == channels.events_positions
           m  == out.message
       IN IF hardware.machine_type > 3
          THEN /\ ListsMasks(m.analog_thresholds_enable, sma, ep.analogThreshEnable)
               /\ ListsMasks(m.analog_thresholds_disable, sma, ep.analogThreshDisable)
          ELSE /\ m.analog_thresholds_enable = <<>>
               /\ m.analog_thresholds_disable = <<>>

\* a machine compiled from three states of which one enables with a zero
\* mask, one with a non-zero mask, and two disable with a non-zero mask
C17_Witness ==
    /\ pc = "compiled" /\ AllReturned
    /\ Len(sma.manifest) = 3
    /\ out.message.analog_thresholds_enable = <<2, 1, 2, 2, 3>>
    /\ out.message.analog_thresholds_disable = <<2, 0, 2, 1, 3>>

\* the call has one action, an AnalogThreshEnable or AnalogThreshDisable
SingleMask(call) ==
    SingleAction(call, "AnalogThreshEnable") \/ SingleAction(call, "AnalogThreshDisable")

\* a string of exactly n characters '0'/'1', or a list of exactly n
\* elements each 0 or 1
WellFormedMask(x, n) ==
    \/ x.t = "str" /\ Len(x.v) = n /\ \A k \in DOMAIN x.v : x.v[k] \in {"0", "1"}
    \/ x.t = "list" /\ Len(x.v) = n /\ \A k \in DOMAIN x.v : x.v[k] \in {0, 1}

\* the flag of flex index k: the k-th character or element from the right
FlexFlag(x, k) ==
    LET e == x.v[Len(x.v) - k]
    IN IF x.t = "str" THEN (IF e = "1" THEN 1 ELSE 0) ELSE e

\* the integer whose bit k is the flag of flex index k
RECURSIVE MaskValue(_, _)
MaskValue(x, k) ==
    IF k >= Len(x.v) THEN 0 ELSE FlexFlag(x, k) * Pow2(k) + MaskValue(x, k + 1)

\* C18: on a device with n flex channels an AnalogThreshEnable or
\* AnalogThreshDisable value that is a string of exactly n characters
\* '0'/'1' or a list of exactly n elements each 0 or 1 is stored as the
\* integer whose bit k is the flag of flex index k (the rightmost character
\* or last element is bit 0), in [0, 2^n - 1]; any other value makes
\* add_state fail with SMAError.
C18_ThresholdMask ==
    (last.op = "add_state" /\ hardware.machine_type > 3 /\ SingleMask(last.call))
    => LET x == last.call.output_actions[1][2]
           n == hardware.n_flex_channels
       IN IF WellFormedMask(x, n)
          THEN /\ last.err = "none"
               /\ StoredValue(sma, last.call) = PyInt(MaskValue(x, 0))
               /\ StoredValue(sma, last.call).v \in 0..(Pow2(n) - 1)
          ELSE last.err = "SMAError"

\* the call has one action, on a flex channel configured as analog output
FlexAnalog(call) ==
    /\ Len(call.output_actions) = 1
    /\ call.output_actions[1][1] \in {"Flex1AO", "Flex2AO"}
    /\ call.output_actions[1][1] \in Range(channels.output_channel_names)

\* how many of the first k calls returned; each of them stored one action
Returned(k) == Cardinality({j \in 1..k : hist[j].err = "none"})

\* the distance, in units of 1/(4095 * 1000) of 5 V, between a code and a
\* voltage in millivolts
CodeError(code, mv) ==
    IF code * 5000 >= mv * 4095 THEN code * 5000 - mv * 4095 ELSE mv * 4095 - code * 5000

\* C19: on a flex channel configured as analog output every voltage v in
\* [0, 5] is stored as the 12-bit code round(v/5 * 4095): it lies in
\* [0, 4095], is nearest to v/5 * 4095, does not decrease with v, is 4095
\* for 5.0 and 2048 for 2.5, and code * 5 / 4095 is within 5/4096 V of v;
\* any v < 0 or v > 5 makes add_state fail with SMAError.
C19_FlexVoltage ==
    (last.op = "add_state" /\ FlexAnalog(last.call))
    => LET mv == last.call.output_actions[1][2].v
       IN IF mv >= 0 /\ mv <= 5000
          THEN /\ last.err = "none"
               /\ StoredValue(sma, last.call).t = "int"
               /\ LET code == StoredValue(sma, last.call).v
                  IN /\ code \in 0..4095
                     /\ 2 * CodeError(code, mv) <= 5000
                     /\ CodeError(code, mv) * 4096 <= 5000 * 4095
                     /\ mv = 5000 => code = 4095
                     /\ mv = 2500 => code = 2048
                     /\ \A k \in 1..(Len(hist) - 1) :
                           (hist[k].err = "none" /\ FlexAnalog(hist[k].call))
                           => LET before == sma.output_matrix[1][Returned(k)][2].v
                                  mvk    == hist[k].call.output_actions[1][2].v
                              IN /\ mvk <= mv => before <= code
                                 /\ mvk >= mv => before >= code
          ELSE last.err = "SMAError"

\* 2.5 V stored as 2048 after a lower voltage was stored as a lower code
C19_Witness ==
    /\ last.op = "add_state" /\ FlexAnalog(last.call) /\ last.err = "none"
    /\ last.call.output_actions[1][2] = PyFloat(2500)
    /\ StoredValue(sma, last.call) = PyInt(2048)
    /\ Len(hist) = 2 /\ hist[1].err = "none"
    /\ hist[1].call.output_actions[1][2] = PyFloat(1500)
    /\ sma.output_matrix[1][Returned(1)][2] = PyInt(1228)

\* a compressed section: the number of overrides, then as many pairs, the
\* states ascending and below n
CompressedWellFormed(section, n) ==
    /\ Len(section) >= 1
    /\ Len(section) = 1 + 2 * section[1]
    /\ \A p \in 1..section[1] :
         /\ section[2 * p] \in 0..(n - 1)
         /\ section[2 * p + 1] # 0
         /\ p > 1 => section[2 * p - 2] < section[2 * p]

\* the per-state array a compressed section stands for: zero, unless a pair
\* overrides the state
Decompressed(section, n) ==
    [i \in 1..n |->
        IF \E p \in 1..section[1] : section[2 * p] = i - 1
        THEN section[2 * (CHOOSE p \in 1..section[1] : section[2 * p] = i - 1) + 1]
        ELSE 0]

\* C20: for every reset_matrix and state count, the compressed
\* GLOBAL_COUNTER_RESETS section of firmware >= 23 (the count of overrides,
\* then (state_idx, counter_number) pairs for the non-zero entries, states
\* ascending) decompresses to exactly the per-state array the same machine
\* emits for firmware < 23.
C20_ResetsRoundTrip ==
    ({"compressed", "uncompressed"} \subseteq DOMAIN out)
    => /\ CompressedWellFormed(out.compressed, sma.total_states_added)
       /\ Decompressed(out.compressed, sma.total_states_added) = out.uncompressed
       /\ Len(out.uncompressed) = sma.total_states_added

\* both layouts built for three states of which the first and the last
\* reset a counter
C20_Witness ==
    /\ {"compressed", "uncompressed"} \subseteq DOMAIN out
    /\ sma.total_states_added = 3
    /\ out.uncompressed = <<2, 0, 1>>
    /\ out.compressed = <<2, 0, 2, 2, 1>>

\* the messages loaded on a UART channel by the calls before the last one
RECURSIVE LoadsBefore(_, _, _)
LoadsBefore(ch, i, acc) ==
    IF i >= Len(hist) THEN acc
    ELSE LoadsBefore(ch, i + 1, CallLoads(hist[i].call, ch, 1, acc))

\* the call loads, as its one action, a message the channel must refuse:
\* empty, longer than serial_message_max_bytes, or new on a full channel
RefusedLoad(call) ==
    /\ SingleLoad(call)
    /\ LET msg == call.output_actions[1][2].v
           ch  == IndexOf(channels.output_channel_names, call.output_actions[1][1])
       IN \/ Len(msg) = 0
          \/ Len(msg) > hardware.serial_message_max_bytes
          \/ /\ Len(LoadsBefore(ch, 1, <<>>)) = MaxSerialMessages
             /\ msg \notin Range(LoadsBefore(ch, 1, <<>>))

\* the integers of the additional ops that are counts and indices: all but
\* the nested messages
OpsScalars(ops) == {ops[k].v : k \in {k \in DOMAIN ops : ops[k].t = "int"}}

\* C21: after any sequence of add_state calls each UART channel holds at
\* most 256 distinct implicit messages, with indices 0..count-1 in the
\* order of first use and lengths in [1, serial_message_max_bytes]; a load
\* stores the message's index as the action's value; loading an empty
\* message, an over-long one or a 257th distinct one fails; and every count
\* and index in the additional ops fits in one byte.
C21_SerialLibrary ==
    /\ AllReturned
       => \A ch \in UartChannels :
            LET msgs == HistLoads(ch, 1, <<>>)
            IN /\ Len(msgs) <= MaxSerialMessages
               /\ sma.n_serial_messages[ch + 1] = Len(msgs)
               /\ \A j \in DOMAIN msgs :
                    /\ (j - 1) \in DOMAIN SerialDict(sma, ch).by_idx
                    /\ SerialDict(sma, ch).by_idx[j - 1] = msgs[j]
                    /\ Len(msgs[j]) \in 1..hardware.serial_message_max_bytes
               /\ (last.op = "add_state" /\ SingleLoad(last.call)
                   /\ LoadsOn(last.call, 1, ch))
                  => StoredValue(sma, last.call)
                       = PyInt(IndexOf(msgs, last.call.output_actions[1][2].v))
    /\ (last.op = "add_state" /\ RefusedLoad(last.call)) => last.err = "SMAError"
    /\ pc = "compiled" => \A x \in OpsScalars(out.additional_ops) : x \in 0..255

\* the 32-bit block as words: four little-endian bytes each
Words(bs) ==
    [k \in 1..(Len(bs) \div 4) |->
        bs[4 * k - 3] + 256 * bs[4 * k - 2] + 65536 * bs[4 * k - 1]
        + 16777216 * bs[4 * k]]

\* C22: the 32-bit block built after build_message has exactly
\* total_states_added state-timer words, word i the timer of state i times
\* cycle_frequency; then, for each used global timer in index order, its
\* duration, on-set delay and loop interval as three consecutive words;
\* then one threshold word per used global counter. Its length is
\* total_states_added + 3 * used_timers + used_counters.
C22_ThirtyTwoBits ==
    (pc = "compiled" /\ last.op = "build_messages") =>
        LET w == Words(out.thirty_two_bits)
            n == sma.total_states_added
            nt == highest_used_global_timer(sma)
            nc == highest_used_global_counter(sma)
            g == sma.global_timers
            cf == hardware.cycle_frequency
        IN /\ Len(out.thirty_two_bits) = 4 * Len(w)
           /\ Len(w) = n + 3 * nt + nc
           /\ \A i \in 1..n : w[i] = last.pre.state_timers[i] * cf
           /\ \A k \in 1..nt :
                 /\ w[n + 3 * (k - 1) + 1] = g.timers[k] * cf
                 /\ w[n + 3 * (k - 1) + 2] = g.on_set_delays[k] * cf
                 /\ w[n + 3 * (k - 1) + 3] = g.loop_intervals[k] * cf
           /\ \A k \in 1..nc :
                 w[n + 3 * nt + k] = sma.global_counters.thresholds[k]

\* the state with ordinal i carries the action: a call that declared it
\* lists the action among its output actions
Carries(i, action_name) ==
    \E k \in DOMAIN hist :
        /\ hist[k].err = "none"
        /\ i < Len(sma.state_names)
        /\ hist[k].call.state_name = sma.state_names[i + 1]
        /\ \E a \in DOMAIN hist[k].call.output_actions :
               hist[k].call.output_actions[a][1] = action_name

\* the timer block of a machine with n states: trigger entry and cancel
\* entry of the state with ordinal i, one byte each
TriggerEntry(i) == out.global_timer[i + 1]

CancelEntry(i) == out.global_timer[sma.total_states_added + i + 1]

\* C28: the timer block is laid out per state: trigger entries for states
\* 0..total_states_added-1, then cancel entries for the same states, then
\* on-set entries per used timer. The cancel entry at position i is
\* non-zero exactly when state i carries a GlobalTimerCancel action, the
\* trigger entry exactly when state i carries a GlobalTimerTrig action, so
\* that an action in one state never changes the entry of another state.
C28_TimerBlock ==
    (pc = "compiled" /\ last.op = "build_messages" /\ AllReturned) =>
        LET n == sma.total_states_added
        IN /\ Len(out.global_timer) = 2 * n + highest_used_global_timer(sma)
           /\ \A i \in 0..(n - 1) :
                 /\ TriggerEntry(i) # 0 <=> Carries(i, "GlobalTimerTrig")
                 /\ CancelEntry(i) # 0 <=> Carries(i, "GlobalTimerCancel")

\* the last n elements of a list
Tail_n(xs, n) == SubSeq(xs, Len(xs) - n + 1, Len(xs))

\* C23: for every hardware descriptor, event_names ends with
\* n_global_timers names GlobalTimer{k}_Start, n_global_timers names
\* GlobalTimer{k}_End, n_global_counters names GlobalCounter{k}_End,
\* n_conditions names Condition{k} and a single Tup as the last element;
\* input_channel_names ends with the names GlobalTimer{k}; and
\* output_channel_names ends with GlobalTimerTrig, GlobalTimerCancel,
\* GlobalCounterReset, followed by AnalogThreshEnable and
\* AnalogThreshDisable exactly when machine_type > 3.
C23_LayoutTail ==
    (pc = "building" /\ last.op = "setup_channels") =>
        LET c == channels
            nT == hardware.n_global_timers
            nC == hardware.n_global_counters
            nK == hardware.n_conditions
            n == 2 * nT + nC + nK + 1
            e == c.event_names
            o == c.output_channel_names
            triggers == <<"GlobalTimerTrig", "GlobalTimerCancel", "GlobalCounterReset">>
            analog == <<"AnalogThreshEnable", "AnalogThreshDisable">>
        IN /\ Len(e) >= n
           /\ Tail_n(e, n) =
                 [k \in 1..nT |-> "GlobalTimer" \o ToString(k) \o "_Start"]
                 \o [k \in 1..nT |-> "GlobalTimer" \o ToString(k) \o "_End"]
                 \o [k \in 1..nC |-> "GlobalCounter" \o ToString(k) \o "_End"]
                 \o [k \in 1..nK |-> "Condition" \o ToString(k)]
                 \o <<"Tup">>
           /\ Cardinality({k \in DOMAIN e : e[k] = "Tup"}) = 1
           /\ Len(c.input_channel_names) >= nT
           /\ Tail_n(c.input_channel_names, nT) =
                 [k \in 1..nT |-> "GlobalTimer" \o ToString(k)]
           /\ IF hardware.machine_type > 3
              THEN Len(o) >= 5 /\ Tail_n(o, 5) = triggers \o analog
              ELSE /\ Len(o) >= 3 /\ Tail_n(o, 3) = triggers
                   /\ Range(analog) \cap Range(o) = {}

C23_Witness ==
    /\ pc = "building" /\ last.op = "setup_channels"
    /\ hardware.machine_type > 3
    /\ hardware.n_global_timers = 2 /\ hardware.n_global_counters = 2
    /\ Len(channels.event_names) > 8

\* the names a flex channel can have in the three lists
FlexNames ==
    {"---"} \cup {"Flex" \o ToString(k) \o suffix :
                    k \in 1..2,
                    suffix \in {"", "High", "Low", "Trig1", "Trig2", "DO", "AO"}}

\* the layouts of the descriptors that differ from this one in
\* flex_channel_types only
OtherFlexLayouts ==
    {ResolveChannels([hardware EXCEPT !.flex_channel_types = ft], modules) :
        ft \in {ft \in [1..Len(hardware.flex_channel_types) -> FlexTypes] :
                  ft # hardware.flex_channel_types}}

\* two lists of one length that agree wherever the first holds a name that
\* is not a flex channel's
SameOutsideFlex(xs, ys) ==
    /\ Len(xs) = Len(ys)
    /\ \A j \in DOMAIN xs : xs[j] \notin FlexNames => ys[j] = xs[j]

FlexCount(xs) == Cardinality({j \in DOMAIN xs : xs[j] \in FlexNames})

\* C24: two descriptors that differ only in flex_channel_types resolve to
\* lists of the same lengths in which every name that does not belong to a
\* flex channel has the same index; each 'F' tag contributes exactly two
\* event names, one input channel name and one output channel name, real
\* or '---'; and each flex channel has a real name in exactly one of the
\* input and output lists.
C24_FlexStability ==
    (pc = "building" /\ last.op = "setup_channels") =>
        LET c == channels
            nF == CountTag(hardware.inputs, "F")
        IN /\ \A d \in OtherFlexLayouts :
                 /\ SameOutsideFlex(c.event_names, d.event_names)
                 /\ SameOutsideFlex(c.input_channel_names, d.input_channel_names)
                 /\ SameOutsideFlex(c.output_channel_names, d.output_channel_names)
           /\ FlexCount(c.event_names) = 2 * nF
           /\ FlexCount(c.input_channel_names) = nF
           /\ FlexCount(c.output_channel_names) = CountTag(hardware.outputs, "F")
           /\ \A k \in 1..nF :
                 LET nm == "Flex" \o ToString(k)
                     asInput == nm \in Range(c.input_channel_names)
                     asOutput == {nm \o "DO", nm \o "AO"}
                                   \cap Range(c.output_channel_names) # {}
                 IN asInput # asOutput

C24_Witness ==
    /\ pc = "building" /\ last.op = "setup_channels"
    /\ hardware.flex_channel_types = <<3, 0>>
    /\ OtherFlexLayouts # {}
    /\ "Flex1AO" \in Range(channels.output_channel_names)
    /\ "Flex2" \in Range(channels.input_channel_names)

C26_LayoutImmutable ==
    last.op = "setup_channels_again" =>
        /\ channels.event_names = last.pre.event_names
        /\ channels.input_channel_names = last.pre.input_channel_names
        /\ channels.output_channel_names = last.pre.output_channel_names
        /\ channels.events_positions = last.pre.events_positions

\* the names of the calls made so far are pairwise distinct
NamesDistinct ==
    \A j, k \in DOMAIN hist :
        hist[j].call.state_name = hist[k].call.state_name => j = k

\* where the block of the state with index i starts in a section of
\* (count, pairs) blocks
RECURSIVE BlockStart(_, _)
BlockStart(matrix, i) ==
    IF i <= 1 THEN 0 ELSE BlockStart(matrix, i - 1) + 1 + 2 * Len(matrix[i - 1])

\* every 'exit' destination stored in the state-timer and input matrices
\* of machine s is emitted in message m as the number n
ExitEmittedAs(s, m, n) ==
    \A i \in 1..s.total_states_added :
        /\ s.state_timer_matrix[i] = NaN => m.state_timer_matrix[i] = n
        /\ \A q \in DOMAIN s.input_matrix[i] :
               s.input_matrix[i][q][2] = NaN =>
                   m.input_matrix[BlockStart(s.input_matrix, i) + 1 + 2 * q] = n

\* C27: total_states_added counts every add_state call that returns, also
\* when the state name is repeated. After k successful calls it is k;
\* manifest and state_names have the same length, at most k, and exactly k
\* when all names were distinct; and the state count written as the first
\* byte of the compiled body and used as the 'exit' destination code is
\* total_states_added.
C27_StatesCounted ==
    AllReturned =>
        /\ sma.total_states_added = Len(hist)
        /\ Len(sma.manifest) = Len(sma.state_names)
        /\ Len(sma.manifest) <= Len(hist)
        /\ Len(sma.manifest) = Len(hist) <=> NamesDistinct
        /\ (pc = "compiled" /\ last.op = "compile") =>
              /\ out.message.counts[1] = sma.total_states_added
              /\ ExitEmittedAs(last.pre, out.message, sma.total_states_added)

C27_Witness ==
    /\ AllReturned /\ pc = "compiled" /\ last.op = "compile"
    /\ Len(hist) = 3 /\ Len(sma.manifest) = 2
    /\ \E i \in 1..3 : last.pre.state_timer_matrix[i] = NaN
    /\ \E i \in 1..3 : \E q \in DOMAIN last.pre.input_matrix[i] :
          last.pre.input_matrix[i][q][2] = NaN

\* C29: the StateOccurrence records of a trial are handed to the session
\* in the order in which the visits happened on the wire: the start
\* timestamps of the visits never decrease along the history, also when a
\* state is visited more than once with other states in between.
C29_WireOrder ==
    (last.op = "add_trial_events" /\ last.err = "none") =>
        \A j, k \in DOMAIN out.history :
            (j < k /\ out.history[j].start # NaN /\ out.history[k].start # NaN)
                => out.history[j].start <= out.history[k].start

\* C30: add_state is atomic on failure: when it raises because of an
\* invalid event name, output name, voltage, threshold mask or serial
\* message, the state machine is left exactly as it was before the call,
\* so that len(manifest) <= total_states_added still holds and a later
\* compile is not rejected because of the failed call.
C30_AtomicOnFailure ==
    (last.op = "add_state" /\ last.err = "SMAError") =>
        /\ sma = last.pre
        /\ Len(last.pre.manifest) <= last.pre.total_states_added
              => Len(sma.manifest) <= sma.total_states_added
        /\ update_state_numbers(last.pre).err = "none"
              => update_state_numbers(sma).err = "none"
====
